---- MODULE Spec2Model ----
(***************************************************************************)
(* Verification model of the hex aggregation engine of MapShell            *)
(* (src/src/components/MapShell.tsx): the resolution state machine, the    *)
(* dataset fingerprint, the annotation cache, the sparse hex build with    *)
(* its cell cap, and the idle-deferred presence rebuild effect.            *)
(*                                                                         *)
(* Zoom values are fixed-point numbers: the integer z stands for the zoom  *)
(* z / ZoomScale.  Coordinates are integers in units of 1e-4 degree.       *)
(***************************************************************************)
EXTENDS Integers, Sequences, FiniteSets, TLC

VARIABLES
    zoom,           \* useState zoom (scaled by ZoomScale)
    currentRes,     \* useState currentRes: 5, 6 or 8
    resChanges,     \* history: number of resolution changes so far (capped)
    confined,       \* history: thresholds T with every zoom so far in [T-1, T+1)
    pois,           \* useState pois: the features of the point collection
    usaGeomForMask, \* useState usaGeomForMask: null or the loaded geometry
    hexFC,          \* useState hexFC: the displayed cell collection
    hexCache,       \* hexCacheRef: cacheKey -> built collection
    hexBuildToken,  \* hexBuildTokenRef: the latest token issued
    hexAnnotationCache, \* hexAnnotationCacheRef: <<cellId, poiVersion>> -> entry
    jobs,           \* the scheduled idle callbacks: token -> closure of run
    lastRun,        \* history: the idle callback that ran last and its outcome
    committed,      \* the dependencies the effects last ran with, and the
                    \* token whose cleanup the rebuild effect left (0: none)
    shownKey,       \* history: the cacheKey hexFC was last set for
    annHist,        \* history: <<cellId, poiVersion>> -> what annotation first
                    \* returned for it since the cache was last cleared
    evictedCells,   \* history: cellIds whose entries a fingerprint change evicted
    build,          \* one hex build in progress: its loop counters and result
    call,           \* one call of a function of the engine: its arguments and result
    win,            \* the window: its fetch, the guard's flag, the last fetch made
    loader,         \* the module's poisDataCache / poisDataPromise and the mounts
    toggles         \* the TypeToggles component: its props, state and storage

zoomVars == <<zoom, currentRes, resChanges, confined>>

zoomHistVars == <<resChanges, confined>>

shellVars == <<pois, usaGeomForMask, hexFC, hexCache, hexBuildToken,
               hexAnnotationCache, jobs, lastRun, committed, shownKey, annHist,
               evictedCells>>

vars == <<zoom, currentRes, resChanges, confined, pois, usaGeomForMask, hexFC,
          hexCache, hexBuildToken, hexAnnotationCache, jobs, lastRun, committed,
          shownKey, annHist, evictedCells, build, call, win, loader, toggles>>

pageVars == <<win, loader, toggles>>

\* a part of the page that the behaviours of a specification leave out
NoPage == [page |-> "none"]

PageIdle == win = NoPage /\ loader = NoPage /\ toggles = NoPage

---------------------------------------------------------------------------
(* Bounds of the model *)

ZoomScale == 2
MinZoom == 2
MaxZoom == 10
MaxChanges == 4
MaxToken == 2
MaxOverlap == 1
MaxPoints == 3
MaxCopies == 2
MaxEstimate == 2600
MaxHaloPoints == 6
MaxExtraPois == 2

ZoomValues == (MinZoom * ZoomScale)..(MaxZoom * ZoomScale - 1)

---------------------------------------------------------------------------
(* Resolution state machine *)

H3Resolution == {5, 6, 8}

CITY_ENTER_Z == 6
CITY_EXIT_Z == 5
TOWN_ENTER_Z == 8
TOWN_EXIT_Z == 7

\* z < t for a scaled zoom z and a threshold t in zoom units
Below(z, t) == z < t * ZoomScale

getHexRes(z) ==
    IF Below(z, CITY_ENTER_Z) THEN 5
    ELSE IF Below(z, TOWN_ENTER_Z) THEN 6
    ELSE 8

\* the same steps with the exit thresholds equal to the enter thresholds
HysteresisNoBand(nextZoom, prevRes) == getHexRes(nextZoom)

\* entry decided by the exit thresholds
HysteresisEnterAtExit(nextZoom, prevRes) ==
    IF ~Below(nextZoom, TOWN_EXIT_Z) THEN 8
    ELSE IF ~Below(nextZoom, CITY_EXIT_Z) THEN 6
    ELSE 5

getHexResWithHysteresis(nextZoom, prevRes) ==
    IF prevRes = 8
    THEN IF Below(nextZoom, TOWN_EXIT_Z)
         THEN (IF ~Below(nextZoom, CITY_ENTER_Z) THEN 6 ELSE 5)
         ELSE 8
    ELSE IF prevRes = 6
    THEN IF ~Below(nextZoom, TOWN_ENTER_Z) THEN 8
         ELSE IF Below(nextZoom, CITY_EXIT_Z) THEN 5
         ELSE 6
    ELSE IF ~Below(nextZoom, TOWN_ENTER_Z) THEN 8
         ELSE IF ~Below(nextZoom, CITY_ENTER_Z) THEN 6
         ELSE 5

\* setCurrentRes((prev) => ...) of both viewport handlers
SetCurrentRes(nextZoom) ==
    /\ zoom' = nextZoom
    /\ currentRes' = getHexResWithHysteresis(nextZoom, currentRes)

updateViewport(nextZoom) == SetCurrentRes(nextZoom)

updateHexResolution(nextZoom) == SetCurrentRes(nextZoom)

---------------------------------------------------------------------------
(* Point features.  A feature is [id, kind, lon, lat]; lon and lat are     *)
(* integers in units of 1e-4 degree, or NaN for a non-finite coordinate.   *)

\* a non-finite number: a reserved value no arithmetic is ever applied to
NaN == -2147483647

isFinite(x) == x # NaN

ALL_POI_KINDS ==
    <<"synagogue", "jcc", "kosher", "mikveh", "jewish_school", "jewish_camp">>

PoiKind == {ALL_POI_KINDS[i] : i \in 1..Len(ALL_POI_KINDS)}

POI_ESTIMATE_WEIGHT ==
    [synagogue |-> 250, jcc |-> 150, kosher |-> 40, mikveh |-> 80,
     jewish_school |-> 200, jewish_camp |-> 300]

GREED_MAX_BY_RES == (5 :> 2500) @@ (6 :> 900) @@ (8 :> 300)

null == "null"

\* canonical kind of a raw kind string, or null
normalizePoiKind(raw) ==
    IF raw \in {"synagogue", "shul"} THEN "synagogue"
    ELSE IF raw \in {"jcc", "jewish_community_center", "jewish_community_centre",
                     "jewish_community_ctr", "jewish_community_ctr."} THEN "jcc"
    ELSE IF raw \in {"kosher", "kosher_amenity"} THEN "kosher"
    ELSE IF raw \in {"mikveh", "mikvah"} THEN "mikveh"
    ELSE IF raw \in {"jewish_school", "school", "yeshiva"} THEN "jewish_school"
    ELSE IF raw \in {"jewish_camp", "camp", "summer_camp"} THEN "jewish_camp"
    ELSE null

clamp(n, min, max) ==
    LET lo == IF max < n THEN max ELSE n
    IN  IF min > lo THEN min ELSE lo

\* Math.round(x) for the non-negative rational x = num / den
RoundDiv(num, den) == (2 * num + den) \div (2 * den)

\* the same level with Math.floor in place of Math.round
GreedLevelTruncated(num, den, res) ==
    LET max == IF res \in DOMAIN GREED_MAX_BY_RES THEN GREED_MAX_BY_RES[res] ELSE 1000
        top == IF num > 0 THEN num ELSE 0
    IN  clamp((top * 100) \div (den * max), 0, 100)

\* greedLevelFromEstimated for the estimate num / den (den > 0)
GreedLevelOfRatio(num, den, res) ==
    LET max == IF res \in DOMAIN GREED_MAX_BY_RES THEN GREED_MAX_BY_RES[res] ELSE 1000
        top == IF num > 0 THEN num ELSE 0
    IN  clamp(RoundDiv(top * 100, den * max), 0, 100)

greedLevelFromEstimated(estimated, res) == GreedLevelOfRatio(estimated, 1, res)

createEmptyPoiCounts == [k \in PoiKind |-> 0]

RECURSIVE WeightedSum(_, _)
WeightedSum(counts, i) ==
    IF i = 0 THEN 0
    ELSE WeightedSum(counts, i - 1)
         + counts[ALL_POI_KINDS[i]] * POI_ESTIMATE_WEIGHT[ALL_POI_KINDS[i]]

\* the same total counting the synagogues alone
getEstimatedFromSynagogues(counts) ==
    LET total == counts["synagogue"] * POI_ESTIMATE_WEIGHT["synagogue"]
    IN  IF total > 0 THEN total ELSE 0

getEstimatedFromPoiCounts(counts) ==
    LET total == WeightedSum(counts, Len(ALL_POI_KINDS))
    IN  IF total > 0 THEN total ELSE 0

---------------------------------------------------------------------------
(* JavaScript numbers.  A finite double is [neg, int, frac]: its sign, the *)
(* integer part of its magnitude and the bits after the binary point, the  *)
(* last of them 1.  Every operation rounds its exact result to the nearest *)
(* double, ties to even, as IEEE 754 does.                                 *)

\* bits of the significand of a double
MantissaBits == 53

Abs(n) == IF n < 0 THEN -n ELSE n

RECURSIVE BitLength(_)
BitLength(n) == IF n = 0 THEN 0 ELSE 1 + BitLength(n \div 2)

RECURSIVE TrimZeros(_)
TrimZeros(bits) ==
    IF Len(bits) > 0 /\ bits[Len(bits)] = 0
    THEN TrimZeros(SubSeq(bits, 1, Len(bits) - 1))
    ELSE bits

Normal(neg, int, frac) ==
    LET f == TrimZeros(frac)
    IN  [neg |-> neg /\ (int # 0 \/ Len(f) > 0), int |-> int, frac |-> f]

\* the double of an integer
NumberOf(k) == Normal(k < 0, Abs(k), <<>>)

\* the zeros before the first 1 of bits[i..]
RECURSIVE LeadingZeros(_, _)
LeadingZeros(bits, i) ==
    IF i > Len(bits) \/ bits[i] = 1 THEN 0 ELSE 1 + LeadingZeros(bits, i + 1)

\* one unit added at position i of bits, with the carry out of position 1
RECURSIVE AddUlp(_, _)
AddUlp(bits, i) ==
    IF i = 0 THEN [carry |-> 1, bits |-> bits]
    ELSE IF bits[i] = 0 THEN [carry |-> 0, bits |-> [bits EXCEPT ![i] = 1]]
    ELSE AddUlp([bits EXCEPT ![i] = 0], i - 1)

\* the double nearest to the exact magnitude int + 0.frac, ties to even
RoundToNearest(neg, int, frac) ==
    LET keep == IF int > 0 THEN MantissaBits - BitLength(int)
                ELSE LeadingZeros(frac, 1) + MantissaBits
    IN  IF Len(frac) <= keep THEN Normal(neg, int, frac)
        ELSE LET kept == SubSeq(frac, 1, keep)
                 sticky == \E i \in (keep + 2)..Len(frac) : frac[i] = 1
                 odd == IF keep > 0 THEN kept[keep] = 1 ELSE int % 2 = 1
                 inc == AddUlp(kept, keep)
             IN  IF frac[keep + 1] = 1 /\ (sticky \/ odd)
                 THEN Normal(neg, int + inc.carry, inc.bits)
                 ELSE Normal(neg, int, kept)

\* the first k bits of r / d (0 <= r < d), then a 1 if a remainder is left
RECURSIVE Expansion(_, _, _)
Expansion(r, d, k) ==
    IF r = 0 THEN <<>>
    ELSE IF k = 0 THEN <<1>>
    ELSE <<(2 * r) \div d>> \o Expansion((2 * r) % d, d, k - 1)

\* n / d for integers n and d # 0
NumberDiv(n, d) ==
    RoundToNearest((n < 0) # (d < 0), Abs(n) \div Abs(d),
                   Expansion(Abs(n) % Abs(d), Abs(d),
                             MantissaBits + 1 + BitLength(Abs(d))))

\* 1 - 0.frac for a fraction that ends in 1
Complement(frac) == [i \in 1..Len(frac) |-> IF i < Len(frac) THEN 1 - frac[i] ELSE 1]

\* a + k for a double a and an integer k
NumberAdd(a, k) ==
    IF k = 0 THEN a
    ELSE IF a.neg = (k < 0) THEN RoundToNearest(a.neg, a.int + Abs(k), a.frac)
    ELSE IF Len(a.frac) = 0 THEN NumberOf((IF a.neg THEN -a.int ELSE a.int) + k)
    ELSE IF Abs(k) > a.int
    THEN RoundToNearest(k < 0, Abs(k) - a.int - 1, Complement(a.frac))
    ELSE RoundToNearest(a.neg, a.int - Abs(k), a.frac)

FracBit(frac, i) == IF i <= Len(frac) THEN frac[i] ELSE 0

MagnitudeLess(a, b) ==
    \/ a.int < b.int
    \/ /\ a.int = b.int
       /\ \E i \in 1..Len(b.frac) :
             /\ FracBit(a.frac, i) < b.frac[i]
             /\ \A j \in 1..(i - 1) : FracBit(a.frac, j) = b.frac[j]

\* a < b
NumberLess(a, b) ==
    IF a.neg # b.neg THEN a.neg
    ELSE IF a.neg THEN MagnitudeLess(b, a)
    ELSE MagnitudeLess(a, b)

---------------------------------------------------------------------------
(* Point in polygon.  A ring is a sequence of <<lon, lat>> pairs of        *)
(* integers, a geometry is [type, coordinates], a point is <<x, y>> with x *)
(* a double and y an integer.                                              *)

\* the point of integer coordinates
LonLat(lon, lat) == <<NumberOf(lon), lat>>

\* the crossing test of one edge (ring[j] -> ring[i]) for the point <<x, y>>:
\* yi > y !== yj > y && x < ((xj - xi) * (y - yi)) / (yj - yi + 0.0) + xi
EdgeIntersects(x, y, pi, pj) ==
    LET xi == pi[1]
        yi == pi[2]
        xj == pj[1]
        yj == pj[2]
    IN  /\ (yi > y) # (yj > y)
        /\ NumberLess(x, NumberAdd(NumberDiv((xj - xi) * (y - yi), yj - yi), xi))

RECURSIVE RingCrossings(_, _, _)
RingCrossings(pt, ring, i) ==
    IF i = 0 THEN 0
    ELSE LET j == IF i = 1 THEN Len(ring) ELSE i - 1
         IN  RingCrossings(pt, ring, i - 1)
             + (IF EdgeIntersects(pt[1], pt[2], ring[i], ring[j]) THEN 1 ELSE 0)

pointInRing(pt, ring) == RingCrossings(pt, ring, Len(ring)) % 2 = 1

\* the same test with the holes ignored
pointInOuterRing(pt, rings) ==
    /\ Len(rings) > 0
    /\ Len(rings[1]) > 0
    /\ pointInRing(pt, rings[1])

pointInPolygonRings(pt, rings) ==
    /\ Len(rings) > 0
    /\ Len(rings[1]) > 0
    /\ pointInRing(pt, rings[1])
    /\ \A h \in 2..Len(rings) : ~pointInRing(pt, rings[h])

\* a missing geometry (null or undefined)
NoGeometry == [type |-> "null", coordinates |-> <<>>]

pointInGeoJsonPolygon(pt, geom) ==
    IF geom = NoGeometry THEN FALSE
    ELSE IF geom.type = "Polygon" THEN pointInPolygonRings(pt, geom.coordinates)
    ELSE IF geom.type = "MultiPolygon"
    THEN \E p \in 1..Len(geom.coordinates) :
            pointInPolygonRings(pt, geom.coordinates[p])
    ELSE FALSE

---------------------------------------------------------------------------
(* The h3-js cell index, abstracted to a one-dimensional lattice: at       *)
(* resolution res the cell of a point is <<res, lon \div CellWidth(res)>>, *)
(* its boundary the closed rectangle over that longitude interval and the  *)
(* latitude band [0, CellHeight), its disk of radius 1 the cell and its    *)
(* two neighbours.                                                         *)

CellHeight == 100

CellWidth(res) == IF res = 5 THEN 16 ELSE IF res = 6 THEN 8 ELSE 4

latLngToCell(lat, lon, res) == <<res, lon \div CellWidth(res)>>

gridDisk(cell) == <<cell, <<cell[1], cell[2] - 1>>, <<cell[1], cell[2] + 1>>>>

cellToBoundary(cell) ==
    LET w == CellWidth(cell[1])
        x0 == cell[2] * w
        x1 == (cell[2] + 1) * w
    IN  <<<<x0, 0>>, <<x1, 0>>, <<x1, CellHeight>>, <<x0, CellHeight>>, <<x0, 0>>>>

---------------------------------------------------------------------------
(* Dataset fingerprint: FNV-1a over the sampled features' tokens, 32 bit.  *)
(* A 32-bit word is the pair <<hi, lo>> of its 16-bit halves; a string is  *)
(* the sequence of its character codes.                                    *)

RECURSIVE Digits(_)
Digits(n) == IF n < 10 THEN <<48 + n>> ELSE Digits(n \div 10) \o <<48 + (n % 10)>>

KindChars(kind) ==
    IF kind = "synagogue" THEN <<115, 121, 110, 97, 103, 111, 103, 117, 101>>
    ELSE IF kind = "jcc" THEN <<106, 99, 99>>
    ELSE IF kind = "kosher" THEN <<107, 111, 115, 104, 101, 114>>
    ELSE IF kind = "mikveh" THEN <<109, 105, 107, 118, 101, 104>>
    ELSE IF kind = "jewish_school"
    THEN <<106, 101, 119, 105, 115, 104, 95, 115, 99, 104, 111, 111, 108>>
    ELSE IF kind = "jewish_camp"
    THEN <<106, 101, 119, 105, 115, 104, 95, 99, 97, 109, 112>>
    ELSE <<>>

\* Number(c).toFixed(3) of the coordinate c / 10000 (c not a rounding tie)
ToFixed3(c) ==
    IF ~isFinite(c) THEN <<78, 97, 78>>
    ELSE LET a == IF c < 0 THEN 0 - c ELSE c
             m == (a + 5) \div 10
             f == m % 1000
         IN  (IF c < 0 THEN <<45>> ELSE <<>>)
             \o Digits(m \div 1000)
             \o <<46, 48 + (f \div 100), 48 + ((f \div 10) % 10), 48 + (f % 10)>>

\* `${id}|${kind}|${lon.toFixed(3)},${lat.toFixed(3)}`
FeatureToken(f) ==
    Digits(f.id) \o <<124>> \o KindChars(f.kind) \o <<124>>
    \o ToFixed3(f.lon) \o <<44>> \o ToFixed3(f.lat)

RECURSIVE XorBits(_, _, _)
XorBits(a, b, n) ==
    IF n = 0 THEN 0
    ELSE 2 * XorBits(a \div 2, b \div 2, n - 1) + ((a + b) % 2)

\* hash ^= c for a character code c < 256
HashXor(h, c) == <<h[1], (h[2] \div 256) * 256 + XorBits(h[2] % 256, c, 8)>>

\* hash = Math.imul(hash, 16777619), 16777619 = 2^24 + 403
HashMul(h) ==
    LET low == h[2] * 403
    IN  <<((h[2] % 256) * 256 + h[1] * 403 + (low \div 65536)) % 65536, low % 65536>>

RECURSIVE HashToken(_, _, _)
HashToken(h, token, j) ==
    IF j > Len(token) THEN h
    ELSE LET next == HashMul(HashXor(h, token[j]))
         IN  IF next[2] >= 0 THEN HashToken(next, token, j + 1) ELSE next

RECURSIVE HashSampled(_, _, _, _)
HashSampled(h, features, i, sampleStep) ==
    IF i > Len(features) THEN h
    ELSE LET next == HashToken(h, FeatureToken(features[i]), 1)
         IN  IF next[2] >= 0
             THEN HashSampled(next, features, i + sampleStep, sampleStep)
             ELSE next

\* "pois:0" is <<0>>, `pois:${length}:${hash}` is <<length, hi, lo>>
\* the fingerprint of a collection whose features are not read
poiDatasetVersionOfNone(features) == <<0>>

poiDatasetVersion(features) ==
    IF Len(features) = 0 THEN <<0>>
    ELSE LET n == Len(features) \div 64
             sampleStep == IF n > 1 THEN n ELSE 1
             h == HashSampled(<<33052, 40389>>, features, 1, sampleStep)
         IN  <<Len(features), h[1], h[2]>>

synagoguePois(features) == SelectSeq(features, LAMBDA f : f.kind = "synagogue")

---------------------------------------------------------------------------
(* Insertion-ordered maps (the iteration order of a JavaScript Map): a     *)
(* sequence of [k, v] records with distinct keys.                          *)

MapHas(m, k) == \E i \in 1..Len(m) : m[i].k = k

MapGet(m, k, default) ==
    IF MapHas(m, k) THEN m[CHOOSE i \in 1..Len(m) : m[i].k = k].v ELSE default

MapSet(m, k, v) ==
    IF MapHas(m, k)
    THEN [i \in 1..Len(m) |-> IF m[i].k = k THEN [k |-> k, v |-> v] ELSE m[i]]
    ELSE Append(m, [k |-> k, v |-> v])

---------------------------------------------------------------------------
(* The offset-grid aggregation of src/lib/mockData.ts.  Points are         *)
(* <<lon, lat>> in units of 1e-4 degree (or NaN).  Mercator metres are     *)
(* integers: near the equator one unit of either coordinate is 11 m, and   *)
(* sqrt(3) is taken as 1.73.                                               *)

radiusMetersForResolution(resolution) ==
    CASE resolution = 5 -> 23000
      [] resolution = 6 -> 11000
      [] resolution = 8 -> 2200

\* Math.round of the rational num / den (den > 0): halves go up
MathRound(num, den) == (2 * num + den) \div (2 * den)

\* arithmetic on a NaN operand gives NaN
lonLatToMercator(lon, lat) ==
    [x |-> IF isFinite(lon) THEN 11 * lon ELSE NaN,
     y |-> IF isFinite(lat) THEN 11 * lat ELSE NaN]

gridStepX(radiusM) == (173 * radiusM) \div 100

gridStepY(radiusM) == (3 * radiusM) \div 2

tierForCount(count) ==
    IF count >= 16 THEN "significant"
    ELSE IF count >= 8 THEN "notable"
    ELSE IF count >= 4 THEN "moderate"
    ELSE IF count >= 2 THEN "low"
    ELSE "minimal"

\* the same threshold applied at every resolution
minCountEverywhere(resolution) == 2

minCountForResolution(resolution) ==
    IF resolution = 8 THEN 2
    ELSE IF resolution = 6 THEN 2
    ELSE 1

\* a number inside a template literal
NumberToString(x) == IF isFinite(x) THEN ToString(x) ELSE "NaN"

\* row, col and cellId of the bucket of one point
GridCellOf(pt, resolution) ==
    LET radiusM == radiusMetersForResolution(resolution)
        stepX == gridStepX(radiusM)
        stepY == gridStepY(radiusM)
        offsetX == stepX \div 2
        m == lonLatToMercator(pt[1], pt[2])
        row == IF isFinite(m.y) THEN MathRound(m.y, stepY) ELSE NaN
        xRowOffset == IF isFinite(row) /\ row % 2 = 0 THEN 0 ELSE offsetX
        col == IF isFinite(m.x) THEN MathRound(m.x - xRowOffset, stepX) ELSE NaN
    IN  [row |-> row, col |-> col,
         cellId |-> NumberToString(resolution) \o ":" \o NumberToString(row)
                        \o ":" \o NumberToString(col)]

\* the cells map after the first i points
RECURSIVE GridBuckets(_, _, _)
GridBuckets(points, resolution, i) ==
    IF i = 0 THEN <<>>
    ELSE LET cells == GridBuckets(points, resolution, i - 1)
             c == GridCellOf(points[i], resolution)
             prev == MapGet(cells, c.cellId, null)
         IN  IF MapHas(cells, c.cellId)
             THEN MapSet(cells, c.cellId, [prev EXCEPT !.count = @ + 1])
             ELSE MapSet(cells, c.cellId, [row |-> c.row, col |-> c.col, count |-> 1])

\* the features of the returned collection (their geometry left out)
aggregatePointsToHexFC(points, resolution) ==
    LET cells == GridBuckets(points, resolution, Len(points))
        minCount == minCountForResolution(resolution)
        kept == SelectSeq(cells, LAMBDA e : ~(e.v.count < minCount))
    IN  [j \in 1..Len(kept) |->
            [tier |-> tierForCount(kept[j].v.count),
             cellId |-> kept[j].k,
             count |-> kept[j].v.count]]


---------------------------------------------------------------------------
(* Sparse hex build.  Estimates are kept in quarter units (the halo is a   *)
(* quarter of a count): estimate = estimated4 / 4.  A density or a score   *)
(* is the rational [num, den].  A feature collection is the sequence of    *)
(* its features.                                                           *)

EMPTY_FC == <<>>

MAX_SPARSE_HEX_CELLS == 120000

Ratio(n, d) == [num |-> n, den |-> d]

RatioLess(a, b) == a.num * b.den < b.num * a.den

tierForEstimate(estimate4) ==
    IF estimate4 >= 16 * 4 THEN "significant"
    ELSE IF estimate4 >= 8 * 4 THEN "notable"
    ELSE IF estimate4 >= 4 * 4 THEN "moderate"
    ELSE IF estimate4 >= 2 * 4 THEN "low"
    ELSE "minimal"

\* cell area in hundredths of a km2 (h3 gives no area: the fallback table)
getCellAreaKm2(cell, resolution) ==
    IF resolution = 5 THEN 25200 ELSE IF resolution = 6 THEN 3600 ELSE 74

RECURSIVE InsertSorted(_, _)
InsertSorted(sorted, v) ==
    IF Len(sorted) = 0 THEN <<v>>
    ELSE IF RatioLess(v, sorted[Len(sorted)])
    THEN Append(InsertSorted(SubSeq(sorted, 1, Len(sorted) - 1), v), sorted[Len(sorted)])
    ELSE Append(sorted, v)

RECURSIVE SortRatios(_, _)
SortRatios(values, i) ==
    IF i = 0 THEN <<>> ELSE InsertSorted(SortRatios(values, i - 1), values[i])

\* the same function taking the last element of the sorted values
percentileLast(values) ==
    IF Len(values) = 0 THEN Ratio(0, 1)
    ELSE LET sorted == SortRatios(values, Len(values))
         IN  sorted[Len(sorted)]

percentile95(values) ==
    IF Len(values) = 0 THEN Ratio(0, 1)
    ELSE LET sorted == SortRatios(values, Len(values))
             idx == (95 * (Len(sorted) - 1)) \div 100
         IN  sorted[idx + 1]

\* the same loop without the test of the kind
RECURSIVE CenterEstimatesOfAnyKind(_, _, _)
CenterEstimatesOfAnyKind(features, resolution, i) ==
    IF i = 0 THEN <<>>
    ELSE LET prev == CenterEstimatesOfAnyKind(features, resolution, i - 1)
             f == features[i]
         IN  IF ~isFinite(f.lon) \/ ~isFinite(f.lat) THEN prev
             ELSE LET cell == latLngToCell(f.lat, f.lon, resolution)
                  IN  MapSet(prev, cell, MapGet(prev, cell, 0) + 1)

\* the first loop: synagogue counts per home cell, in insertion order
RECURSIVE CenterEstimates(_, _, _)
CenterEstimates(features, resolution, i) ==
    IF i = 0 THEN <<>>
    ELSE LET prev == CenterEstimates(features, resolution, i - 1)
             f == features[i]
         IN  IF f.kind # "synagogue" THEN prev
             ELSE IF ~isFinite(f.lon) \/ ~isFinite(f.lat) THEN prev
             ELSE LET cell == latLngToCell(f.lat, f.lon, resolution)
                  IN  MapSet(prev, cell, MapGet(prev, cell, 0) + 1)

\* the same halo added to what the neighbour already holds
RECURSIVE HaloOfCellSummed(_, _, _, _)
HaloOfCellSummed(estimates, cell, halo4, n) ==
    IF n = 0 THEN estimates
    ELSE LET prev == HaloOfCellSummed(estimates, cell, halo4, n - 1)
             neighbor == gridDisk(cell)[n]
         IN  IF neighbor = cell THEN prev
             ELSE MapSet(prev, neighbor, MapGet(prev, neighbor, 0) + halo4)

\* one home cell's halo: every other cell of its disk gets max(prev, count / 4)
RECURSIVE HaloOfCell(_, _, _, _)
HaloOfCell(estimates, cell, halo4, n) ==
    IF n = 0 THEN estimates
    ELSE LET prev == HaloOfCell(estimates, cell, halo4, n - 1)
             neighbor == gridDisk(cell)[n]
             old == MapGet(prev, neighbor, 0)
         IN  IF neighbor = cell THEN prev
             ELSE MapSet(prev, neighbor, IF old > halo4 THEN old ELSE halo4)

RECURSIVE HaloEstimates(_, _)
HaloEstimates(centers, i) ==
    IF i = 0 THEN [j \in 1..Len(centers) |-> [k |-> centers[j].k, v |-> 4 * centers[j].v]]
    ELSE LET prev == HaloEstimates(centers, i - 1)
             halo4 == centers[i].v
         IN  IF halo4 <= 0 THEN prev
             ELSE HaloOfCell(prev, centers[i].k, halo4, Len(gridDisk(centers[i].k)))

\* the same pass without the cap
SparseLoopIterUncapped(processed, estimateRaw4, boundaryLen) ==
    [capped |-> FALSE, stop |-> FALSE, processed |-> processed + 1,
     emit |-> clamp(estimateRaw4, 0, 10000 * 4) > 0 /\ boundaryLen >= 4]

\* the same pass leaving `capped` unset at the cap
SparseLoopIterSilent(processed, estimateRaw4, boundaryLen) ==
    IF processed >= MAX_SPARSE_HEX_CELLS
    THEN [capped |-> FALSE, stop |-> TRUE, processed |-> processed, emit |-> FALSE]
    ELSE [capped |-> FALSE, stop |-> FALSE, processed |-> processed + 1,
          emit |-> clamp(estimateRaw4, 0, 10000 * 4) > 0 /\ boundaryLen >= 4]

\* one pass of the emission loop's head for a candidate
SparseLoopIter(processed, estimateRaw4, boundaryLen) ==
    IF processed >= MAX_SPARSE_HEX_CELLS
    THEN [capped |-> TRUE, stop |-> TRUE, processed |-> processed, emit |-> FALSE]
    ELSE [capped |-> FALSE, stop |-> FALSE, processed |-> processed + 1,
          emit |-> clamp(estimateRaw4, 0, 10000 * 4) > 0 /\ boundaryLen >= 4]

SparseRow(cell, estimateRaw4, resolution) ==
    LET estimate4 == clamp(estimateRaw4, 0, 10000 * 4)
        area == getCellAreaKm2(cell, resolution)
    IN  [cell |-> cell,
         boundary |-> cellToBoundary(cell),
         estimate4 |-> estimate4,
         areaKm2 |-> area,
         density |-> IF estimate4 > 0 /\ area > 0 THEN Ratio(25 * estimate4, area)
                     ELSE Ratio(0, 1),
         tier |-> tierForEstimate(estimate4)]

RECURSIVE EmitRows(_, _, _, _, _)
EmitRows(estimates, resolution, i, processed, rows) ==
    IF i > Len(estimates) THEN [rows |-> rows, capped |-> FALSE]
    ELSE LET cell == estimates[i].k
             it == SparseLoopIter(processed, estimates[i].v, Len(cellToBoundary(cell)))
         IN  IF it.stop THEN [rows |-> rows, capped |-> it.capped]
             ELSE EmitRows(estimates, resolution, i + 1, it.processed,
                           IF it.emit
                           THEN Append(rows, SparseRow(cell, estimates[i].v, resolution))
                           ELSE rows)

SparseFeature(r, p95, resolution) ==
    [cellId |-> r.cell,
     estimated4 |-> r.estimate4,
     greedLevel |-> GreedLevelOfRatio(r.estimate4, 4, resolution),
     areaKm2 |-> r.areaKm2,
     density |-> r.density,
     score |-> IF ~RatioLess(r.density, p95) THEN Ratio(1, 1)
               ELSE Ratio(r.density.num * p95.den, r.density.den * p95.num),
     estimateSmoothed4 |-> r.estimate4,
     tier |-> r.tier,
     resolution |-> resolution,
     geometry |-> [type |-> "Polygon", coordinates |-> <<r.boundary>>]]

\* return { fc: { type: "FeatureCollection", features: outFeatures }, p95 }
SparseReturn(fc, p95) == [fc |-> fc, p95 |-> p95]

\* the value returned is ret = {fc, p95}; warned is the console.warn of the cap
buildSparseHexesFromPois(features, resolution) ==
    LET centers == CenterEstimates(features, resolution, Len(features))
    IN  IF Len(features) = 0 \/ Len(centers) = 0
        THEN [ret |-> SparseReturn(EMPTY_FC, Ratio(1, 1)), warned |-> FALSE]
        ELSE LET estimates == HaloEstimates(centers, Len(centers))
                 emitted == EmitRows(estimates, resolution, 1, 0, <<>>)
                 rows == emitted.rows
                 densities == [j \in 1..Len(rows) |-> rows[j].density]
                 nonzero == SelectSeq(densities, LAMBDA d : d.num > 0)
                 raw == percentile95(nonzero)
                 p95 == IF raw.num <= 0 THEN Ratio(1, 1) ELSE raw
             IN  [ret |-> SparseReturn([j \in 1..Len(rows) |->
                                           SparseFeature(rows[j], p95, resolution)],
                                       p95),
                  warned |-> emitted.capped]

---------------------------------------------------------------------------
(* Annotation of a hex collection with category counts.  The annotation    *)
(* cache is a function from <<cellId, poiVersion>> to its entry.  An       *)
(* annotated feature is the hex feature it copies (hex) with the four      *)
(* properties the annotation overrides.                                    *)

\* the features annotation keeps: finite coordinates and a known kind
poiFeaturesOf(features) ==
    SelectSeq(features, LAMBDA f :
        isFinite(f.lon) /\ isFinite(f.lat) /\ normalizePoiKind(f.kind) # null)

FeatureResolution(f) == IF "resolution" \in DOMAIN f THEN f.resolution ELSE 6

\* the cache-miss path: containment counts of one hex geometry
CountsInside(geom, poiFeatures) ==
    [k \in PoiKind |->
        Cardinality({i \in 1..Len(poiFeatures) :
            /\ normalizePoiKind(poiFeatures[i].kind) = k
            /\ geom # NoGeometry
            /\ pointInGeoJsonPolygon(LonLat(poiFeatures[i].lon, poiFeatures[i].lat), geom)})]

CacheMissEntry(f, poiFeatures, poiVersion) ==
    LET counts == CountsInside(f.geometry, poiFeatures)
        estimated == getEstimatedFromPoiCounts(counts)
    IN  [poiVersion |-> poiVersion,
         poiCounts |-> counts,
         estimated |-> estimated,
         greedLevel |-> greedLevelFromEstimated(estimated, FeatureResolution(f))]

\* the same call storing nothing
AnnotationCacheUnset(cache, cacheKey, entry) == cache

\* annotationCache.set(cacheKey, entry)
AnnotationCacheSet(cache, cacheKey, entry) ==
    [k \in DOMAIN cache \cup {cacheKey} |-> IF k = cacheKey THEN entry ELSE cache[k]]

\* the entry used for one feature: cached when present, else computed
AnnotationEntry(f, poiFeatures, poiVersion, cache) ==
    LET cacheKey == <<f.cellId, poiVersion>>
    IN  IF cacheKey \in DOMAIN cache
        THEN LET cached == cache[cacheKey]
             IN  [cached EXCEPT !.greedLevel =
                    IF isFinite(cached.greedLevel) THEN cached.greedLevel
                    ELSE greedLevelFromEstimated(cached.estimated, FeatureResolution(f))]
        ELSE CacheMissEntry(f, poiFeatures, poiVersion)

AnnotatedFeature(f, entry) ==
    [hex |-> f,
     poiCounts |-> entry.poiCounts,
     estimated |-> entry.estimated,
     estimate |-> entry.estimated,
     greedLevel |-> entry.greedLevel]

\* one call of the map callback: the feature appended, the entry stored
AnnotateOne(prev, f, poiFeatures, poiVersion) ==
    LET cacheKey == <<f.cellId, poiVersion>>
        entry == AnnotationEntry(f, poiFeatures, poiVersion, prev.cache)
    IN  [fc |-> Append(prev.fc, AnnotatedFeature(f, entry)),
         cache |-> IF cacheKey \in DOMAIN prev.cache THEN prev.cache
                   ELSE AnnotationCacheSet(prev.cache, cacheKey, entry)]

\* hexFeatures.map(...) over features 1..i: the features and the cache after
RECURSIVE AnnotateMap(_, _, _, _, _)
AnnotateMap(hexFeatures, poiFeatures, poiVersion, cache, i) ==
    IF i = 0 THEN [fc |-> <<>>, cache |-> cache]
    ELSE CHOOSE next \in
            {AnnotateOne(prev, hexFeatures[i], poiFeatures, poiVersion) :
                prev \in {AnnotateMap(hexFeatures, poiFeatures, poiVersion, cache,
                                      i - 1)}} : TRUE

\* returns the annotated collection (fc) and the annotation cache it leaves
annotateHexesWithPois(hexFc, poisFc, poiVersion, annotationCache) ==
    IF Len(hexFc) = 0 THEN [fc |-> EMPTY_FC, cache |-> annotationCache]
    ELSE AnnotateMap(hexFc, poiFeaturesOf(poisFc), poiVersion, annotationCache,
                     Len(hexFc))

\* initial state of currentRes for an initial zoom z
InitialRes(z) == getHexResWithHysteresis(z, getHexRes(z))

Thresholds == {CITY_ENTER_Z, TOWN_ENTER_Z}

InBand(z, t) == ~Below(z, t - 1) /\ Below(z, t + 1)

FinerOf(t) == IF t = TOWN_ENTER_Z THEN 8 ELSE 6

ZoomHistory(nextZoom) ==
    /\ resChanges' = IF currentRes' # currentRes /\ resChanges < MaxChanges
                     THEN resChanges + 1 ELSE resChanges
    /\ confined' = {t \in confined : InBand(nextZoom, t)}

---------------------------------------------------------------------------
(* The MapShell component: state updates, the effects that follow a        *)
(* render, and the idle callbacks of the presence rebuild.                 *)
(* The layer shown is "presence".  setPois may replace the collection by   *)
(* any other one, which includes the loader's single EMPTY_FC -> loaded    *)
(* step.  The cleanup of the rebuild effect sets cancelled and asks the    *)
(* browser to drop the callback; a callback that is nevertheless invoked   *)
(* is what the guards of run are for, so a cancelled callback stays        *)
(* schedulable here.                                                       *)

\* the point collections the loader may supply
PoiA == [id |-> 1, kind |-> "synagogue", lon |-> 11, lat |-> 50]
PoiB == [id |-> 1, kind |-> "synagogue", lon |-> 12, lat |-> 50]
PoiC == [id |-> 2, kind |-> "jcc", lon |-> 12, lat |-> 50]

Datasets == {EMPTY_FC, <<PoiA>>, <<PoiB>>, <<PoiA, PoiC>>}

\* one zoom value in each regime of the state machine
ShellZooms == {((2 * t + 1) * ZoomScale) \div 2 : t \in {4, 6, 8}}

NoKey == <<>>

EmptyMap == <<>>

\* the dependencies of the current render, with the rebuild cleanup's token
Committed(cleanup) ==
    [res |-> currentRes, pois |-> pois, mask |-> usaGeomForMask, cleanup |-> cleanup]

\* a render whose effects have not run yet
Dirty == committed # Committed(committed.cleanup)

\* the memoised fingerprint and sparse build of each supplied collection
VersionOf == [fc \in Datasets |-> poiDatasetVersion(fc)]

SparseOf ==
    [res \in H3Resolution, fc \in Datasets |->
        buildSparseHexesFromPois(synagoguePois(fc), res)]

\* the same key without the resolution
CacheKeyWithoutRes(res, features) ==
    <<0, Len(synagoguePois(features)), VersionOf[features]>>

\* `sparse:${currentRes}:${synagogueCount}:${poiDatasetVersion}`
CacheKeyOf(res, features) ==
    <<res, Len(synagoguePois(features)), VersionOf[features]>>

\* the closure of run: the render's currentRes and pois, and its cancelled flag
NewJob(res, features) == [res |-> res, pois |-> features, cancelled |-> FALSE]

NoRun == [token |-> 0, outcome |-> "none", cancelled |-> FALSE, latest |-> 0]

\* the rebuild effect, run for the resolution res, would find its key in
\* the hex cache: such a render issues no token
WouldHit(res) ==
    /\ pois = committed.pois
    /\ usaGeomForMask = committed.mask
    /\ CacheKeyOf(res, pois) \in DOMAIN hexCache

\* onMoveEnd / onLoad
MoveEnd(nextZoom) ==
    /\ hexBuildToken < MaxToken \/ WouldHit(getHexResWithHysteresis(nextZoom, currentRes))
    /\ updateViewport(nextZoom)
    /\ UNCHANGED <<resChanges, confined, build, call, pageVars, pois, usaGeomForMask, hexFC, hexCache,
                   hexBuildToken, hexAnnotationCache, jobs, lastRun, committed,
                   shownKey, annHist, evictedCells>>

\* onMove
Move(nextZoom) ==
    /\ hexBuildToken < MaxToken \/ WouldHit(getHexResWithHysteresis(nextZoom, currentRes))
    /\ updateHexResolution(nextZoom)
    /\ UNCHANGED <<resChanges, confined, build, call, pageVars, pois, usaGeomForMask, hexFC, hexCache,
                   hexBuildToken, hexAnnotationCache, jobs, lastRun, committed,
                   shownKey, annHist, evictedCells>>

\* setPois(fc): the point collection is replaced whole
SetPois(fc) ==
    /\ hexBuildToken < MaxToken
    /\ fc # pois
    /\ pois' = fc
    /\ UNCHANGED <<zoom, currentRes, resChanges, confined, build, call, pageVars, usaGeomForMask, hexFC,
                   hexCache, hexBuildToken, hexAnnotationCache, jobs, lastRun,
                   committed, shownKey, annHist, evictedCells>>

\* setUsaGeomForMask(geometry)
SetUsaGeomForMask ==
    /\ hexBuildToken < MaxToken \/ currentRes = committed.res
    /\ usaGeomForMask = null
    /\ usaGeomForMask' = "usa"
    /\ UNCHANGED <<zoom, currentRes, resChanges, confined, build, call, pageVars, pois, hexFC, hexCache,
                   hexBuildToken, hexAnnotationCache, jobs, lastRun, committed,
                   shownKey, annHist, evictedCells>>

\* hexCacheRef.current.clear() on [usaGeomForMask, pois]
HexCacheClearEffect(cache, maskChanged, poisChanged) ==
    IF maskChanged \/ poisChanged THEN EmptyMap ELSE cache

\* the same effect without the clear
AnnotationCacheKept(cache, oldVersion, newVersion) == cache

\* hexAnnotationCacheRef.current.clear() on [poiDatasetVersion]
AnnotationCacheClearEffect(cache, oldVersion, newVersion) ==
    IF oldVersion # newVersion THEN EmptyMap ELSE cache

\* a cleanup that leaves the flag alone
RebuildCleanupKept(js, token) == js

\* the cleanup the rebuild effect returned: cancelled = true
RebuildCleanup(js, token) ==
    IF token = 0 THEN js
    ELSE [t \in DOMAIN js |-> IF t = token THEN [js[t] EXCEPT !.cancelled = TRUE]
                                           ELSE js[t]]

\* the passive effects of the latest render, cleanups first, then in order
FlushEffects ==
    LET maskChanged == usaGeomForMask # committed.mask
        poisChanged == pois # committed.pois
        resChanged == currentRes # committed.res
        oldVersion == VersionOf[committed.pois]
        newVersion == VersionOf[pois]
        rebuild == resChanged \/ poisChanged
        cleaned == IF rebuild THEN RebuildCleanup(jobs, committed.cleanup) ELSE jobs
        cache == HexCacheClearEffect(hexCache, maskChanged, poisChanged)
        annotations == AnnotationCacheClearEffect(hexAnnotationCache, oldVersion,
                                                  newVersion)
        cacheKey == CacheKeyOf(currentRes, pois)
        hit == cacheKey \in DOMAIN cache
        token == hexBuildToken + 1
    IN  /\ Dirty
        /\ hexCache' = cache
        /\ hexAnnotationCache' = annotations
        /\ annHist' = IF annotations = hexAnnotationCache THEN annHist ELSE EmptyMap
        /\ evictedCells' = evictedCells \cup
              {k[1] : k \in DOMAIN hexAnnotationCache \ DOMAIN annotations}
        /\ IF ~rebuild
           THEN /\ UNCHANGED <<hexFC, hexBuildToken, jobs, shownKey>>
                /\ committed' = Committed(committed.cleanup)
           ELSE IF hit
           THEN /\ hexFC' = cache[cacheKey]
                /\ shownKey' = cacheKey
                /\ jobs' = cleaned
                /\ committed' = Committed(0)
                /\ UNCHANGED hexBuildToken
           ELSE /\ hexBuildToken' = token
                /\ jobs' = [t \in DOMAIN cleaned \cup {token} |->
                              IF t = token THEN NewJob(currentRes, pois) ELSE cleaned[t]]
                /\ committed' = Committed(token)
                /\ UNCHANGED <<hexFC, shownKey>>
        /\ UNCHANGED <<zoom, currentRes, resChanges, confined, build, call, pageVars, pois, usaGeomForMask,
                       lastRun>>

\* what annotation first returned for each cell, with the point set it saw
HistAfter(hist, fc, features, version) ==
    [k \in DOMAIN hist \cup {<<fc[i].hex.cellId, version>> : i \in 1..Len(fc)} |->
        IF k \in DOMAIN hist
        THEN [hist[k] EXCEPT !.calls =
                IF k[2] = version /\ \E i \in 1..Len(fc) : fc[i].hex.cellId = k[1]
                THEN 2 ELSE @]
        ELSE LET f == fc[CHOOSE i \in 1..Len(fc) : fc[i].hex.cellId = k[1]]
             IN  [poiCounts |-> f.poiCounts, estimated |-> f.estimated,
                  greedLevel |-> f.greedLevel, src |-> features, calls |-> 1]]

RunRecord(token, outcome) ==
    [token |-> token, outcome |-> outcome, cancelled |-> jobs[token].cancelled,
     latest |-> hexBuildToken]

Unschedule(token) == [t \in DOMAIN jobs \ {token} |-> jobs[t]]

\* the guard inverted: the latest rebuild is the one dropped
SupersededWhenLatest(job, token) == job.cancelled \/ token = hexBuildToken

\* if (cancelled || token !== hexBuildTokenRef.current) return
Superseded(job, token) == job.cancelled \/ token # hexBuildToken

\* the build and annotation of one rebuild, against the annotation cache
Rebuilt(job) ==
    annotateHexesWithPois(SparseOf[job.res, job.pois].ret.fc, job.pois,
                          VersionOf[job.pois], hexAnnotationCache)

\* hexCacheRef.current.set(cacheKey, next); setHexFC(next)
Apply(job, next) ==
    LET cacheKey == CacheKeyOf(job.res, job.pois)
    IN  /\ hexCache' = [k \in DOMAIN hexCache \cup {cacheKey} |->
                          IF k = cacheKey THEN next.fc ELSE hexCache[k]]
        /\ hexFC' = next.fc
        /\ shownKey' = cacheKey

\* the same callback without the cancelled / token guards
runUnguarded(token) ==
    \E job \in {jobs[token]} : \E next \in {Rebuilt(job)} :
        /\ hexAnnotationCache' = next.cache
        /\ annHist' = HistAfter(annHist, next.fc, job.pois, VersionOf[job.pois])
        /\ lastRun' = RunRecord(token, "applied")
        /\ Apply(job, next)
        /\ jobs' = Unschedule(token)
        /\ UNCHANGED <<zoom, currentRes, resChanges, confined, build, call, pageVars, pois, usaGeomForMask,
                       hexBuildToken, committed, evictedCells>>

\* the idle callback run of the rebuild issued with `token`
run(token) ==
    \E job \in {jobs[token]} :
        /\ IF job.cancelled
           THEN /\ lastRun' = RunRecord(token, "skipped")
                /\ UNCHANGED <<hexFC, hexCache, hexAnnotationCache, shownKey, annHist>>
           ELSE \E next \in {Rebuilt(job)} :
                /\ hexAnnotationCache' = next.cache
                /\ annHist' = HistAfter(annHist, next.fc, job.pois,
                                        VersionOf[job.pois])
                /\ IF Superseded(job, token)
                   THEN /\ lastRun' = RunRecord(token, "discarded")
                        /\ UNCHANGED <<hexFC, hexCache, shownKey>>
                   ELSE /\ lastRun' = RunRecord(token, "applied")
                        /\ Apply(job, next)
        /\ jobs' = Unschedule(token)
        /\ UNCHANGED <<zoom, currentRes, resChanges, confined, build, call, pageVars, pois, usaGeomForMask,
                       hexBuildToken, committed, evictedCells>>

\* no function call is being followed
NoCall == [fn |-> "none"]

\* no build is being followed step by step
NoBuild == [fn |-> "none", pc |-> "done"]

\* the state once the component has mounted and its effects have run
Init ==
    /\ zoom \in ShellZooms
    /\ currentRes = InitialRes(zoom)
    /\ resChanges = 0
    /\ confined = {}
    /\ pois \in Datasets
    /\ usaGeomForMask = null
    /\ hexFC = EMPTY_FC
    /\ hexCache = EmptyMap
    /\ hexBuildToken = 1
    /\ hexAnnotationCache = EmptyMap
    /\ jobs = [t \in {1} |-> NewJob(currentRes, pois)]
    /\ lastRun = NoRun
    /\ committed = Committed(1)
    /\ shownKey = NoKey
    /\ annHist = EmptyMap
    /\ evictedCells = {}
    /\ build = NoBuild
    /\ call = NoCall
    /\ PageIdle

OnMove == \E z \in ShellZooms : Move(z)

OnMoveEnd == \E z \in ShellZooms : MoveEnd(z)

PoisLoaded == \E fc \in Datasets : SetPois(fc)

IdleCallback == \E t \in DOMAIN jobs : run(t)

Next ==
    \/ OnMove
    \/ OnMoveEnd
    \/ PoisLoaded
    \/ SetUsaGeomForMask
    \/ FlushEffects
    \/ IdleCallback

Spec == Init /\ [][Next]_vars

\* the scheduled callback of `token` leaves the queue: only run(token) does it
Invoked(token) == token \in DOMAIN jobs /\ jobs' = Unschedule(token)

\* React runs the pending effects; requestIdleCallback (timeout 1200 ms) or
\* setTimeout invokes every scheduled callback
FairSpec ==
    /\ Spec
    /\ WF_vars(FlushEffects)
    /\ \A t \in 1..MaxToken : WF_jobs(Invoked(t))

---------------------------------------------------------------------------
(* The resolution state machine on its own, fed arbitrary zoom sequences.  *)

ZoomInit ==
    /\ zoom \in ZoomValues
    /\ currentRes = InitialRes(zoom)
    /\ resChanges = 0
    /\ confined = {t \in Thresholds : InBand(zoom, t)}
    /\ pois = EMPTY_FC
    /\ usaGeomForMask = null
    /\ hexFC = EMPTY_FC
    /\ hexCache = EmptyMap
    /\ hexBuildToken = 0
    /\ hexAnnotationCache = EmptyMap
    /\ jobs = EmptyMap
    /\ lastRun = NoRun
    /\ committed = Committed(0)
    /\ shownKey = NoKey
    /\ annHist = EmptyMap
    /\ evictedCells = {}
    /\ build = NoBuild
    /\ call = NoCall
    /\ PageIdle

ZoomMove ==
    \E z \in ZoomValues :
        updateHexResolution(z) /\ ZoomHistory(z) /\ UNCHANGED <<shellVars, build, call, pageVars>>

ZoomMoveEnd ==
    \E z \in ZoomValues :
        updateViewport(z) /\ ZoomHistory(z) /\ UNCHANGED <<shellVars, build, call, pageVars>>

ZoomNext == ZoomMove \/ ZoomMoveEnd

SpecZoom == ZoomInit /\ [][ZoomNext]_vars

---------------------------------------------------------------------------
(* The emission loops of the two hex builds, one candidate per step, with  *)
(* the caps of the source.  The candidates themselves are abstracted: a    *)
(* sparse candidate carries its raw estimate (in quarters) and the length  *)
(* of its boundary; a presence grid point is one that passed the land mask *)
(* and containment tests, and is either a new cellId or one already in     *)
(* cellBest (overlapping presence areas).                                  *)

MAX_CELLS == 120000

\* the boundary of an H3 cell in GeoJSON order is a closed ring
ClosedRingLen == Len(cellToBoundary(<<5, 0>>))

StartBuild(fn) ==
    [fn |-> fn, pc |-> "loop", seen |-> 0, processed |-> 0, emitted |-> 0,
     overlaps |-> 0, capped |-> FALSE, warned |-> FALSE, ret |-> <<>>]

\* after the loop: console.warn if capped, then the features and the return
SparseFinish(b, capped) ==
    [b EXCEPT !.pc = "done", !.capped = capped, !.warned = capped,
              !.ret = SparseReturn(b.emitted, Ratio(1, 1))]

\* for (const [cell, estimateRaw] of estimates.entries()): the next entry
SparseCandidate ==
    /\ build.fn = "sparse" /\ build.pc = "loop"
    /\ \E estimateRaw4 \in {1, 4} :
         LET it == SparseLoopIter(build.processed, estimateRaw4, ClosedRingLen)
             seen == [build EXCEPT !.seen = @ + 1, !.processed = it.processed,
                                   !.emitted = IF it.emit THEN @ + 1 ELSE @]
         IN  build' = IF it.stop THEN SparseFinish(seen, it.capped) ELSE seen
    /\ UNCHANGED <<zoomVars, shellVars, call, pageVars>>

\* estimates.entries() has no further entry
SparseExhausted ==
    /\ build.fn = "sparse" /\ build.pc = "loop"
    /\ build' = SparseFinish(build, FALSE)
    /\ UNCHANGED <<zoomVars, shellVars, call, pageVars>>

\* cells++; if (cells >= MAX_CELLS) break (out of the three loops)
PresenceLoopTail(cells) == [cells |-> cells + 1, stop |-> cells + 1 >= MAX_CELLS]

\* features.push(...) for every value of cellBest; return the collection
PresenceFinish(b) == [b EXCEPT !.pc = "done", !.ret = [features |-> b.emitted]]

\* a grid point that passed the tests: cellBest.set unless a prev exists
PresenceCell ==
    /\ build.fn = "presence" /\ build.pc = "loop"
    /\ \E prev \in BOOLEAN :
         /\ prev => build.emitted > 0 /\ build.overlaps < MaxOverlap
         /\ LET it == PresenceLoopTail(build.processed)
                seen == [build EXCEPT !.seen = @ + 1, !.processed = it.cells,
                                      !.emitted = IF prev THEN @ ELSE @ + 1,
                                      !.overlaps = IF prev THEN @ + 1 ELSE @]
            IN  build' = IF it.stop THEN PresenceFinish(seen) ELSE seen
    /\ UNCHANGED <<zoomVars, shellVars, call, pageVars>>

\* the loops over features, rows and columns end
PresenceExhausted ==
    /\ build.fn = "presence" /\ build.pc = "loop"
    /\ build' = PresenceFinish(build)
    /\ UNCHANGED <<zoomVars, shellVars, call, pageVars>>

ShellIdle ==
    /\ pois = EMPTY_FC
    /\ usaGeomForMask = null
    /\ hexFC = EMPTY_FC
    /\ hexCache = EmptyMap
    /\ hexBuildToken = 0
    /\ hexAnnotationCache = EmptyMap
    /\ jobs = EmptyMap
    /\ lastRun = NoRun
    /\ committed = Committed(0)
    /\ shownKey = NoKey
    /\ annHist = EmptyMap
    /\ evictedCells = {}

CapInit ==
    /\ zoom = MinZoom * ZoomScale
    /\ currentRes = InitialRes(zoom)
    /\ resChanges = 0
    /\ confined = {}
    /\ ShellIdle
    /\ build \in {StartBuild("sparse"), StartBuild("presence")}
    /\ call = NoCall
    /\ PageIdle

CapNext ==
    \/ SparseCandidate
    \/ SparseExhausted
    \/ PresenceCell
    \/ PresenceExhausted

SpecCap == CapInit /\ [][CapNext]_vars

---------------------------------------------------------------------------
(* Single calls of the functions of the engine on enumerated arguments.    *)

\* points in one cell and in different cells of the offset grid, and points
\* with a NaN coordinate
GridPoints == <<<<0, 0>>, <<100, 0>>, <<400, 0>>, <<5000, 4000>>, <<NaN, 0>>, <<0, NaN>>>>

\* the sequence of the elements of `values` at the indices `picks`
Pick(values, picks) == [j \in 1..Len(picks) |-> values[picks[j]]]

RECURSIVE SeqsUpTo(_, _)
SeqsUpTo(S, n) ==
    IF n = 0 THEN {<<>>}
    ELSE LET shorter == SeqsUpTo(S, n - 1)
         IN  shorter \cup {Append(q, x) : q \in {p \in shorter : Len(p) = n - 1}, x \in S}

\* a call that has not returned yet, and the same call once it has returned
\* a value; threw is set by a throw statement, of which these functions
\* have none
Pending(fn, args) ==
    [fn |-> fn, args |-> args, returned |-> FALSE, threw |-> FALSE, out |-> <<>>]

Return(out) == [call EXCEPT !.returned = TRUE, !.out = out]

Calling(fn) == call.fn = fn /\ ~call.returned

Returned(fn) == call.fn = fn /\ call.returned

FnUnchanged == UNCHANGED <<zoomVars, shellVars, build, pageVars>>

AggregateArgs ==
    {[points |-> Pick(GridPoints, picks), resolution |-> resolution] :
        picks \in SeqsUpTo(DOMAIN GridPoints, MaxPoints), resolution \in H3Resolution}

CallAggregate ==
    /\ Calling("aggregatePointsToHexFC")
    /\ call' = Return(aggregatePointsToHexFC(call.args.points, call.args.resolution))
    /\ FnUnchanged

\* the points a collection is made of: two synagogues in one cell at every
\* resolution, a synagogue and a camp together in a cell far from it, a
\* synagogue with a non-finite coordinate and a point of no known kind
PoiTemplates ==
    <<[kind |-> "synagogue", lon |-> 1, lat |-> 50],
      [kind |-> "synagogue", lon |-> 2, lat |-> 50],
      [kind |-> "synagogue", lon |-> 200, lat |-> 50],
      [kind |-> "jewish_camp", lon |-> 201, lat |-> 50],
      [kind |-> "synagogue", lon |-> NaN, lat |-> 50],
      [kind |-> "museum", lon |-> 1, lat |-> 50]>>

\* copies[t] features of template t for each t <= i, one after the other
RECURSIVE PoiCopies(_, _)
PoiCopies(copies, i) ==
    IF i = 0 THEN <<>>
    ELSE PoiCopies(copies, i - 1) \o [j \in 1..copies[i] |-> PoiTemplates[i]]

\* the collection with copies[t] features of template t, ids in order
PoisOf(copies) ==
    LET all == PoiCopies(copies, Len(PoiTemplates))
    IN  [j \in 1..Len(all) |->
            [id |-> j, kind |-> all[j].kind, lon |-> all[j].lon, lat |-> all[j].lat]]

\* up to MaxCopies features of each of the first four templates, or ten at
\* the first coordinate, and at most one of each of the last two
PoiCollections ==
    {PoisOf(copies) :
        copies \in {c \in [1..Len(PoiTemplates) -> 0..MaxCopies \cup {10}] :
                        /\ \A t \in 2..4 : c[t] <= MaxCopies
                        /\ \A t \in 5..Len(PoiTemplates) : c[t] <= 1}}

\* up to MaxHaloPoints synagogues, in every order, at three longitudes that
\* fall in three consecutive cells at resolution 8, in two at resolution 6
\* and in one at resolution 5
HaloLongitudes == {1, 5, 9}

HaloCollections ==
    {[j \in 1..Len(lons) |-> [id |-> j, kind |-> "synagogue", lon |-> lons[j], lat |-> 50]] :
        lons \in SeqsUpTo(HaloLongitudes, MaxHaloPoints)}

SparseArgs ==
    {[pois |-> poisFc, resolution |-> resolution] :
        poisFc \in PoiCollections \cup HaloCollections, resolution \in H3Resolution}

\* the sparse build of a collection followed by its annotation, as the
\* rebuild does with an annotation cache that holds nothing for it
CallSparseAnnotate ==
    /\ Calling("buildSparseHexesFromPois")
    /\ LET poisFc == call.args.pois
           sparse == buildSparseHexesFromPois(poisFc, call.args.resolution)
           annotated == annotateHexesWithPois(sparse.ret.fc, poisFc,
                                              poiDatasetVersion(poisFc), EmptyMap)
       IN  call' = Return([sparse |-> sparse, annotated |-> annotated.fc])
    /\ FnUnchanged

\* resolutions a caller may pass: the three levels and values outside them
ResolutionValues == {4, 5, 6, 7, 8, 9}

\* every estimate up to a little over the largest normalization constant
EstimateValues == 0..MaxEstimate

GreedLevelArgs ==
    {[estimated |-> estimated, res |-> res] :
        estimated \in EstimateValues, res \in ResolutionValues}

CallGreedLevel ==
    /\ Calling("greedLevelFromEstimated")
    /\ call' = Return(greedLevelFromEstimated(call.args.estimated, call.args.res))
    /\ FnUnchanged

\* the feature f with its resolution property set to r
WithResolution(f, r) == [f EXCEPT !.resolution = r]

\* the feature f without a resolution property
WithoutResolution(f) == [p \in DOMAIN f \ {"resolution"} |-> f[p]]

\* a one-cell collection holding two synagogues, under every resolution
\* property, and the points to annotate it with
AnnotateArgs ==
    LET poisFc == PoisOf([t \in 1..Len(PoiTemplates) |-> IF t = 1 THEN 2 ELSE 0])
        hex == buildSparseHexesFromPois(poisFc, 5).ret.fc[1]
    IN  {[hexFc |-> <<WithResolution(hex, r)>>, poisFc |-> poisFc, cache |-> EmptyMap] :
            r \in ResolutionValues}
            \cup {[hexFc |-> <<WithoutResolution(hex)>>, poisFc |-> poisFc,
                   cache |-> EmptyMap]}

\* a synagogue followed by up to MaxExtraPois points: one of any kind in the
\* synagogue's cell, or a synagogue or a kosher place in the next cell of
\* resolution 8
KindPoints ==
    {[kind |-> kind, lon |-> 2, lat |-> 50] : kind \in PoiKind}
        \cup {[kind |-> kind, lon |-> 5, lat |-> 50] : kind \in {"synagogue", "kosher"}}

KindCollections ==
    {LET all == <<[kind |-> "synagogue", lon |-> 1, lat |-> 50]>> \o extra
     IN  [j \in 1..Len(all) |->
            [id |-> j, kind |-> all[j].kind, lon |-> all[j].lon, lat |-> all[j].lat]] :
        extra \in SeqsUpTo(KindPoints, MaxExtraPois)}

\* the sparse collection of such a point set annotated with it, against an
\* empty annotation cache or against the cache a first annotation left
CachedAnnotateArgs ==
    UNION {LET hexFc == buildSparseHexesFromPois(synagoguePois(poisFc), resolution).ret.fc
               first == annotateHexesWithPois(hexFc, poisFc, poiDatasetVersion(poisFc),
                                              EmptyMap)
           IN  {[hexFc |-> hexFc, poisFc |-> poisFc, cache |-> cache] :
                    cache \in {EmptyMap, first.cache}} :
              poisFc \in KindCollections, resolution \in H3Resolution}

CallAnnotate ==
    /\ Calling("annotateHexesWithPois")
    /\ call' = Return(annotateHexesWithPois(call.args.hexFc, call.args.poisFc,
                                            poiDatasetVersion(call.args.poisFc),
                                            call.args.cache).fc)
    /\ FnUnchanged

\* the closed ring of the rectangle [x0, x1] x [y0, y1]
RectRing(x0, x1, y0, y1) == <<<<x0, y0>>, <<x1, y0>>, <<x1, y1>>, <<x0, y1>>, <<x0, y0>>>>

\* a square, a hole in it, an island in the hole, a square with sloped edges
OuterRing == RectRing(0, 8, 0, 8)
HoleRing == RectRing(2, 6, 2, 6)
IslandRing == RectRing(3, 5, 3, 5)
DiamondRing == <<<<4, 0>>, <<8, 4>>, <<4, 8>>, <<0, 4>>, <<4, 0>>>>

\* geometries of every kind the function tells apart
Geometries ==
    <<[type |-> "Polygon", coordinates |-> <<OuterRing>>],
      [type |-> "Polygon", coordinates |-> <<OuterRing, HoleRing>>],
      [type |-> "Polygon", coordinates |-> <<OuterRing, HoleRing, IslandRing>>],
      [type |-> "Polygon", coordinates |-> <<DiamondRing>>],
      [type |-> "Polygon", coordinates |-> <<>>],
      [type |-> "Polygon", coordinates |-> <<<<>>, HoleRing>>],
      [type |-> "MultiPolygon", coordinates |-> <<<<OuterRing, HoleRing>>, <<IslandRing>>>>],
      [type |-> "MultiPolygon", coordinates |-> <<<<DiamondRing, IslandRing>>>>],
      [type |-> "MultiPolygon", coordinates |-> <<<<>>, <<HoleRing>>>>],
      [type |-> "MultiPolygon", coordinates |-> <<>>],
      [type |-> "LineString", coordinates |-> OuterRing],
      [type |-> "Point", coordinates |-> <<4, 4>>],
      NoGeometry>>

\* integer points in and around the rings
GridCoordinates == -1..9

\* geom is the position of the geometry in Geometries
PolygonArgs ==
    {[pt |-> <<x, y>>, geom |-> g] :
        x \in GridCoordinates, y \in GridCoordinates, g \in DOMAIN Geometries}

CallPointInPolygon ==
    /\ Calling("pointInGeoJsonPolygon")
    /\ call' = Return(pointInGeoJsonPolygon(LonLat(call.args.pt[1], call.args.pt[2]),
                                            Geometries[call.args.geom]))
    /\ FnUnchanged

RingVertices == {<<0, 0>>, <<1, 3>>, <<3, 1>>, <<2, 3>>}

\* rings of at most two distinct vertices, and a triangle
RingValues ==
    {<<>>} \cup {<<a>> : a \in RingVertices}
           \cup {<<a, b>> : a \in RingVertices, b \in RingVertices}
           \cup {<<a, b, a>> : a \in RingVertices, b \in RingVertices}
           \cup {<<<<0, 0>>, <<3, 0>>, <<0, 3>>, <<0, 0>>>>}

\* the x of a point: an integer, or a quotient such as 1 / 3
XValues ==
    {NumberOf(k) : k \in 0..3} \cup {NumberDiv(n, 3) : n \in 1..8}

RingArgs ==
    {[x |-> x, y |-> y, ring |-> ring] :
        x \in XValues, y \in 0..3, ring \in RingValues}

CallPointInRing ==
    /\ Calling("pointInRing")
    /\ call' = Return(pointInRing(<<call.args.x, call.args.y>>, call.args.ring))
    /\ FnUnchanged

\* every zoom of the model with every previous resolution
HysteresisArgs ==
    {[nextZoom |-> nextZoom, prevRes |-> prevRes] :
        nextZoom \in ZoomValues, prevRes \in H3Resolution}

CallHysteresis ==
    /\ Calling("getHexResWithHysteresis")
    /\ call' = Return(getHexResWithHysteresis(call.args.nextZoom, call.args.prevRes))
    /\ FnUnchanged

FnCalls ==
    {Pending("aggregatePointsToHexFC", args) : args \in AggregateArgs}
        \cup {Pending("getHexResWithHysteresis", args) : args \in HysteresisArgs}
        \cup {Pending("pointInGeoJsonPolygon", args) : args \in PolygonArgs}
        \cup {Pending("pointInRing", args) : args \in RingArgs}
        \cup {Pending("buildSparseHexesFromPois", args) : args \in SparseArgs}
        \cup {Pending("greedLevelFromEstimated", args) : args \in GreedLevelArgs}
        \cup {Pending("annotateHexesWithPois", args) :
                 args \in AnnotateArgs \cup CachedAnnotateArgs}

FnInit ==
    /\ zoom = MinZoom * ZoomScale
    /\ currentRes = InitialRes(zoom)
    /\ resChanges = 0
    /\ confined = {}
    /\ ShellIdle
    /\ build = NoBuild
    /\ call \in FnCalls
    /\ PageIdle

FnNext ==
    \/ CallAggregate
    \/ CallSparseAnnotate
    \/ CallGreedLevel
    \/ CallAnnotate
    \/ CallPointInPolygon
    \/ CallPointInRing
    \/ CallHysteresis

SpecFn == FnInit /\ [][FnNext]_vars

---------------------------------------------------------------------------
(* The fetch guard MapShell installs on the window.  A string is the       *)
(* sequence of its pieces: "http", "s", ":", "/", a host name, and so on;  *)
(* the pieces "HTTP", "S" and "TILES.OPENFREEMAP.ORG" are the upper-case   *)
(* spellings of "http", "s" and the tile host.  window.fetch is the        *)
(* browser's fetch under `guards` layers of guardedFetch.                  *)

MaxMounts == 3

TileHost == "tiles.openfreemap.org"

FETCH_ABSOLUTE_ALLOWLIST == <<<<"http", "s", ":", "/", "/", TileHost>>>>

toLowerCase(str) ==
    [i \in 1..Len(str) |->
        CASE str[i] = "HTTP" -> "http"
          [] str[i] = "S" -> "s"
          [] str[i] = "TILES.OPENFREEMAP.ORG" -> TileHost
          [] OTHER -> str[i]]

startsWith(str, prefix) ==
    Len(str) >= Len(prefix) /\ SubSeq(str, 1, Len(prefix)) = prefix

\* /^https?:\/\//i.test(url)
TestHttpPrefix(url) ==
    \/ startsWith(toLowerCase(url), <<"http", ":", "/", "/">>)
    \/ startsWith(toLowerCase(url), <<"http", "s", ":", "/", "/">>)

\* a string, a URL (toString()) or a Request (.url)
getFetchUrl(input) ==
    CASE input.kind = "string" -> input.url
      [] input.kind = "URL" -> input.url
      [] input.kind = "Request" -> input.url

isAllowedAbsoluteFetchUrl(url) ==
    LET normalized == toLowerCase(url)
    IN  \E a \in 1..Len(FETCH_ABSOLUTE_ALLOWLIST) :
            LET prefix == toLowerCase(FETCH_ABSOLUTE_ALLOWLIST[a])
            IN  normalized = prefix \/ startsWith(normalized, Append(prefix, "/"))

\* one layer of guardedFetch: throw, or hand `input` to the fetch it wraps
guardedFetch(input) ==
    LET requestUrl == getFetchUrl(input)
    IN  IF TestHttpPrefix(requestUrl) /\ ~isAllowedAbsoluteFetchUrl(requestUrl)
        THEN [threw |-> TRUE, reached |-> FALSE]
        ELSE [threw |-> FALSE, reached |-> TRUE]

\* window.fetch(input): through the guard when there is one.  Every layer
\* makes the same test of the same input, so the layers agree.
WindowFetch(input) ==
    LET result == IF win.guards = 0 THEN [threw |-> FALSE, reached |-> TRUE]
                  ELSE guardedFetch(input)
    IN  [input |-> input, guarded |-> win.guards > 0, threw |-> result.threw,
         reached |-> result.reached,
         passed |-> IF result.reached THEN <<input>> ELSE <<>>]

\* the effect of lines 1065-1088, run at every mount
InstallFetchGuard(w) ==
    IF w.installed THEN w
    ELSE [w EXCEPT !.guards = @ + 1, !.installed = TRUE]

GuardUnchanged == UNCHANGED <<zoomVars, shellVars, build, call, loader, toggles>>

\* a MapShell mounts
MountShell ==
    /\ win.mounts < MaxMounts
    /\ win' = [InstallFetchGuard(win) EXCEPT !.mounts = @ + 1]
    /\ GuardUnchanged

\* the strings fetch is called with: with or without a leading space, with
\* either spelling of the scheme, with slashes or backslashes after it, for
\* the tile host, another host and hosts that only begin like the tile host
Schemes == {<<"http">>, <<"http", "s">>, <<"HTTP", "S">>}

Separators == {<<"/", "/">>, <<"\\", "\\">>}

Authorities ==
    {<<TileHost>>, <<"TILES.OPENFREEMAP.ORG">>, <<"evil.example">>,
     <<TileHost, ".evil.example">>, <<TileHost, "@", "evil.example">>}

Paths == {<<>>, <<"/">>, <<"/", "styles", "/", "liberty">>}

AbsoluteStrings ==
    {lead \o scheme \o <<":">> \o sep \o authority \o path :
        lead \in {<<>>, <<" ">>}, scheme \in Schemes, sep \in Separators,
        authority \in Authorities, path \in Paths}

RelativeStrings ==
    {<<"/", "data", "/", "pois.geojson">>, <<"data", "/", "pois.geojson">>,
     <<"/", "/", "evil.example", "/">>}

\* the serialization a URL or Request object carries: always absolute
Serialized ==
    {<<"http", "s", ":", "/", "/">> \o authority \o path :
        authority \in {<<TileHost>>, <<"evil.example">>, <<"app.example">>},
        path \in Paths \ {<<>>}}

FetchInputs ==
    {[kind |-> "string", url |-> url] : url \in AbsoluteStrings \cup RelativeStrings}
        \cup {[kind |-> kind, url |-> url] : kind \in {"URL", "Request"}, url \in Serialized}

NoFetch == [input |-> <<>>, guarded |-> FALSE, threw |-> FALSE, reached |-> FALSE,
            passed |-> <<>>]

\* some code of the page calls window.fetch
Fetch ==
    /\ \E input \in FetchInputs : win' = [win EXCEPT !.last = WindowFetch(input)]
    /\ GuardUnchanged

\* the engine's variables at rest
EngineIdle ==
    /\ zoom = MinZoom * ZoomScale
    /\ currentRes = InitialRes(zoom)
    /\ resChanges = 0
    /\ confined = {}
    /\ ShellIdle
    /\ build = NoBuild
    /\ call = NoCall

GuardInit ==
    /\ EngineIdle
    /\ win = [installed |-> FALSE, guards |-> 0, mounts |-> 0, last |-> NoFetch]
    /\ loader = NoPage
    /\ toggles = NoPage

GuardNext ==
    \/ MountShell
    \/ Fetch

SpecGuard == GuardInit /\ [][GuardNext]_vars

---------------------------------------------------------------------------
(* The loader of /data/pois.geojson: the module's poisDataCache and        *)
(* poisDataPromise, shared by every MapShell, and the loading effect of    *)
(* each mounted MapShell.  A promise is the number of the request it was   *)
(* made for (0: null); the loaded collection is "fc".                      *)

MaxComponents == 3

NoPromise == 0

\* a MapShell that has not mounted yet
NotMounted ==
    [phase |-> "new", alive |-> FALSE, sub |-> NoPromise, pois |-> "EMPTY_FC",
     notified |-> FALSE, late |-> FALSE]

Components == 1..MaxComponents

InFlight == {n \in 1..Len(loader.requests) : loader.requests[n] = "inflight"}

\* the effect issuing a request at every mount
RequestAlways(l) == TRUE

\* if (!poisDataPromise)
NeedsRequest(l) == l.promise = NoPromise

LoaderUnchanged == UNCHANGED <<zoomVars, shellVars, build, call, win, toggles>>

\* useState(() => poisDataCache ?? EMPTY_FC) and the loading effect
MountLoader(c) ==
    /\ loader.comps[c].phase = "new"
    /\ LET cached == loader.cache # null
           issue == ~cached /\ NeedsRequest(loader)
           requests == IF issue THEN Append(loader.requests, "inflight")
                       ELSE loader.requests
           promise == IF issue THEN Len(requests) ELSE loader.promise
       IN  loader' = [loader EXCEPT
               !.requests = requests,
               !.promise = promise,
               !.comps[c] = [phase |-> "mounted", alive |-> TRUE,
                             sub |-> IF cached THEN NoPromise ELSE promise,
                             pois |-> IF cached THEN loader.cache ELSE "EMPTY_FC",
                             notified |-> FALSE, late |-> FALSE]]
    /\ LoaderUnchanged

\* the cleanup of the loading effect: alive = false
UnmountLoader(c) ==
    /\ loader.comps[c].phase = "mounted"
    /\ loader' = [loader EXCEPT !.comps[c].phase = "gone", !.comps[c].alive = FALSE]
    /\ LoaderUnchanged

\* request n ends and the handlers of the shared promise run: the
\* collection is stored, or the catch handler resets poisDataPromise
Respond(n, ok) ==
    /\ n \in InFlight
    /\ loader' = [loader EXCEPT
           !.requests[n] = IF ok THEN "ok" ELSE "failed",
           !.cache = IF ok THEN "fc" ELSE @,
           !.promise = IF ok THEN @ ELSE NoPromise]
    /\ LoaderUnchanged

\* the handlers a mounted effect attached to the promise it saw
Notify(c) ==
    /\ loader.comps[c].sub # NoPromise
    /\ ~loader.comps[c].notified
    /\ loader.requests[loader.comps[c].sub] # "inflight"
    /\ LET comp == loader.comps[c]
           ok == loader.requests[comp.sub] = "ok"
           update == comp.alive
       IN  loader' = [loader EXCEPT
               !.comps[c].notified = TRUE,
               !.comps[c].pois = IF update THEN (IF ok THEN "fc" ELSE "EMPTY_FC") ELSE @,
               !.comps[c].late = update /\ comp.phase = "gone"]
    /\ LoaderUnchanged

LoaderInit ==
    /\ EngineIdle
    /\ win = NoPage
    /\ toggles = NoPage
    /\ loader = [cache |-> null, promise |-> NoPromise, requests |-> <<>>,
                 comps |-> [c \in Components |-> NotMounted]]

Mounting == \E c \in Components : MountLoader(c)

Unmounting == \E c \in Components : UnmountLoader(c)

Responding == \E n \in InFlight, ok \in BOOLEAN : Respond(n, ok)

Notifying == \E c \in Components : Notify(c)

LoaderNext ==
    \/ Mounting
    \/ Unmounting
    \/ Responding
    \/ Notifying

SpecLoader == LoaderInit /\ [][LoaderNext]_vars

---------------------------------------------------------------------------
(* The TypeToggles component (src/src/components/TypeToggles.tsx) with the *)
(* two states its parent owns, visibleTypes and showMoreTypes.  The        *)
(* session storage holds no item ("null"), the item "true", or is          *)
(* "unavailable" (every access throws).  pendingShowMore is "null" or      *)
(* "true".  last is the handler that ran last and the key it was given.    *)

INSTITUTION_TYPES ==
    <<[key |-> "synagogue", sensitive |-> FALSE],
      [key |-> "jcc", sensitive |-> FALSE],
      [key |-> "kosher", sensitive |-> FALSE],
      [key |-> "school", sensitive |-> TRUE],
      [key |-> "mikveh", sensitive |-> TRUE],
      [key |-> "camp", sensitive |-> TRUE]>>

DEFAULT_VISIBLE_TYPES == <<"synagogue", "jcc", "kosher">>

includes(arr, x) == \E i \in 1..Len(arr) : arr[i] = x

\* a test that finds no type sensitive
isSensitiveNever(key) == FALSE

isSensitiveType(key) ==
    \E i \in 1..Len(INSTITUTION_TYPES) :
        INSTITUTION_TYPES[i].key = key /\ INSTITUTION_TYPES[i].sensitive

baseTypes ==
    {INSTITUTION_TYPES[i].key : i \in {j \in 1..Len(INSTITUTION_TYPES) :
        includes(DEFAULT_VISIBLE_TYPES, INSTITUTION_TYPES[j].key)}}

moreTypes ==
    {INSTITUTION_TYPES[i].key : i \in {j \in 1..Len(INSTITUTION_TYPES) :
        ~includes(DEFAULT_VISIBLE_TYPES, INSTITUTION_TYPES[j].key)}}

\* sessionStorage.getItem(ACK_KEY) === "true", false when the access throws
hasAck(t) == t.storage = "true"

\* sessionStorage.setItem(ACK_KEY, "true") inside try / catch
setAck(storage) == IF storage = "unavailable" THEN storage ELSE "true"

Handled(t, event, key) == [t EXCEPT !.last = [event |-> event, key |-> key]]

toggleType(t, key) ==
    IF includes(t.visibleTypes, key)
    THEN [t EXCEPT !.visibleTypes = SelectSeq(t.visibleTypes, LAMBDA k : k # key)]
    ELSE [t EXCEPT !.visibleTypes = Append(t.visibleTypes, key)]

requestShowMore(t, next) ==
    IF ~next THEN [t EXCEPT !.showMoreTypes = FALSE]
    ELSE IF hasAck(t) THEN [t EXCEPT !.showMoreTypes = TRUE]
    ELSE [t EXCEPT !.pendingShowMore = "true", !.ackOpen = TRUE]

requestSensitiveEnable(t, key) ==
    IF ~isSensitiveType(key) \/ hasAck(t) THEN toggleType(t, key)
    ELSE [t EXCEPT !.pendingShowMore = "true", !.ackOpen = TRUE]

TogglesUnchanged == UNCHANGED <<zoomVars, shellVars, build, call, win, loader>>

\* onChange of the 'More types' checkbox
ChangeShowMore ==
    /\ toggles' = Handled(requestShowMore(toggles, ~toggles.showMoreTypes),
                          "requestShowMore", "none")
    /\ TogglesUnchanged

\* onChange of the checkbox of a base type
ChangeBaseType ==
    /\ \E key \in baseTypes :
          toggles' = Handled(toggleType(toggles, key), "toggleType", key)
    /\ TogglesUnchanged

\* onChange of the checkbox of one of the other types, rendered while
\* showMoreTypes holds
ChangeMoreType ==
    /\ toggles.showMoreTypes
    /\ \E key \in moreTypes :
          LET willEnable == ~includes(toggles.visibleTypes, key)
          IN  toggles' = IF willEnable
                         THEN Handled(requestSensitiveEnable(toggles, key),
                                      "requestSensitiveEnable", key)
                         ELSE Handled(toggleType(toggles, key), "toggleType", key)
    /\ TogglesUnchanged

\* onClick of Cancel
Cancel ==
    /\ toggles.ackOpen
    /\ toggles' = Handled([toggles EXCEPT !.ackOpen = FALSE, !.pendingShowMore = "null"],
                          "cancel", "none")
    /\ TogglesUnchanged

\* onClick of Continue
Continue ==
    /\ toggles.ackOpen
    /\ toggles' = Handled([toggles EXCEPT
                              !.storage = setAck(@),
                              !.ackOpen = FALSE,
                              !.showMoreTypes =
                                  IF toggles.pendingShowMore = "true" THEN TRUE ELSE @,
                              !.pendingShowMore = "null"],
                          "continue", "none")
    /\ TogglesUnchanged

TogglesInit ==
    /\ EngineIdle
    /\ win = NoPage
    /\ loader = NoPage
    /\ toggles \in {[visibleTypes |-> DEFAULT_VISIBLE_TYPES, showMoreTypes |-> FALSE,
                     ackOpen |-> FALSE, pendingShowMore |-> "null", storage |-> storage,
                     last |-> [event |-> "none", key |-> "none"]] :
                        storage \in {"null", "true", "unavailable"}}

TogglesNext ==
    \/ ChangeShowMore
    \/ ChangeBaseType
    \/ ChangeMoreType
    \/ Cancel
    \/ Continue

SpecToggles == TogglesInit /\ [][TogglesNext]_vars


---------------------------------------------------------------------------
(* C2: a zoom sequence confined to [T-1, T+1) of an enter threshold T,     *)
(* started from getHexRes of its first value, changes the resolution at    *)
(* most once, and the finer state of T, once entered, is left only by a    *)
(* zoom strictly below T-1.                                                *)
C2_AtMostOneChange ==
    /\ [](confined # {} => resChanges <= 1)
    /\ [][\A t \in Thresholds :
            (currentRes = FinerOf(t) /\ currentRes' # FinerOf(t)
                /\ currentRes' < FinerOf(t))
            => Below(zoom', t - 1)]_vars

C2_Witness ==
    /\ TOWN_ENTER_Z \in confined
    /\ resChanges = 1
    /\ currentRes = 8
    /\ Below(zoom, TOWN_ENTER_Z)

(* C3: a finer state is left for a coarser one only below its enter        *)
(* threshold minus 1: from 8 every zoom >= 7 gives 8 and only a zoom < 7   *)
(* gives a coarser level; from 6 only a zoom < 5 gives 5, a zoom >= 8      *)
(* gives 8, anything else stays 6.                                         *)
C3_ExitThresholds ==
    [][/\ currentRes = 8 =>
            /\ ~Below(zoom', 7) => currentRes' = 8
            /\ Below(zoom', 7) => currentRes' \in {5, 6}
       /\ currentRes = 6 =>
            /\ Below(zoom', 5) => currentRes' = 5
            /\ ~Below(zoom', 8) => currentRes' = 8
            /\ (~Below(zoom', 5) /\ Below(zoom', 8)) => currentRes' = 6]_vars

C3_Witness ==
    /\ currentRes = 8
    /\ Below(zoom, TOWN_ENTER_Z)
    /\ ~Below(zoom, TOWN_EXIT_Z)

(* C4: entry into a finer state is decided by the absolute enter           *)
(* thresholds: from every previous resolution a zoom >= 8 gives 8; from 5  *)
(* a zoom in [6, 8) gives 6 and a zoom < 6 stays 5.                        *)
C4_EnterThresholds ==
    [][/\ ~Below(zoom', 8) => currentRes' = 8
       /\ currentRes = 5 =>
            /\ (~Below(zoom', 6) /\ Below(zoom', 8)) => currentRes' = 6
            /\ Below(zoom', 6) => currentRes' = 5]_vars

C4_Witness ==
    /\ currentRes = 8
    /\ resChanges = 1
    /\ ~Below(zoom, TOWN_ENTER_Z)
    /\ confined = {}

---------------------------------------------------------------------------
(* C1: the result of a deferred rebuild is applied (stored in hexCache and  *)
(* set as hexFC) only if the rebuild has not been cancelled and its token   *)
(* is the latest issued when it completes; a run of a cancelled rebuild or  *)
(* of one whose token is no longer the latest changes neither hexFC nor     *)
(* hexCache, whatever the interleaving of triggers and idle callbacks.      *)
C1_AppliedOnlyIfLatest ==
    /\ [](lastRun.outcome = "applied" =>
            ~lastRun.cancelled /\ lastRun.token = lastRun.latest)
    /\ [][(lastRun' # lastRun
            /\ (lastRun'.cancelled \/ lastRun'.token # lastRun'.latest))
          => (hexFC' = hexFC /\ hexCache' = hexCache)]_vars

C1_Witness ==
    /\ lastRun.cancelled
    /\ lastRun.token < hexBuildToken
    /\ shownKey = CacheKeyOf(currentRes, pois)
    /\ hexFC # EMPTY_FC

\* the cells of an annotated collection
HexesOf(fc) == [i \in 1..Len(fc) |-> fc[i].hex]

Shown ==
    /\ shownKey = CacheKeyOf(currentRes, pois)
    /\ HexesOf(hexFC) = SparseOf[currentRes, pois].ret.fc

(* C5: once no further resolution change or dataset change follows, the    *)
(* rebuild enqueued for the last one eventually runs (effects and idle     *)
(* callbacks scheduled fairly) and the displayed collection becomes and    *)
(* stays the one built for the current resolution and the current dataset  *)
(* fingerprint.                                                            *)
C5_RebuildEventuallyShown ==
    <>[][currentRes' = currentRes /\ pois' = pois]_vars => <>[]Shown

C5_Witness ==
    /\ Shown
    /\ lastRun.outcome = "applied"
    /\ lastRun.token = hexBuildToken
    /\ hexBuildToken > 1
    /\ jobs = EmptyMap
    /\ ~Dirty

(* C6: annotating a cell again under the same fingerprint and the same     *)
(* annotation cache returns exactly the poiCounts, estimated and           *)
(* greedLevel the first call computed for that cell.                       *)
C6_CacheHitReproduces ==
    \A i \in 1..Len(hexFC) :
        LET k == <<hexFC[i].hex.cellId, shownKey[3]>>
        IN  k \in DOMAIN annHist =>
                /\ hexFC[i].poiCounts = annHist[k].poiCounts
                /\ hexFC[i].estimated = annHist[k].estimated
                /\ hexFC[i].greedLevel = annHist[k].greedLevel

C6_Witness ==
    /\ lastRun.outcome = "applied"
    /\ \E i \in 1..Len(hexFC) :
        LET k == <<hexFC[i].hex.cellId, shownKey[3]>>
        IN  k \in DOMAIN annHist /\ annHist[k].calls = 2

(* C7: entries stored under an older dataset fingerprint are evicted:      *)
(* every entry of the annotation cache carries the fingerprint of the      *)
(* rendered dataset, so no cell has entries under two fingerprints.        *)
C7_OnlyCurrentFingerprint ==
    \A k \in DOMAIN hexAnnotationCache :
        /\ k[2] = VersionOf[committed.pois]
        /\ hexAnnotationCache[k].poiVersion = k[2]

C7_Witness ==
    \E k \in DOMAIN hexAnnotationCache :
        /\ k[1] \in evictedCells
        /\ k[2] = VersionOf[committed.pois]

CapOf(b) == IF b.fn = "presence" THEN MAX_CELLS ELSE MAX_SPARSE_HEX_CELLS

(* C9: the sparse build emits at most MAX_SPARSE_HEX_CELLS cells and the   *)
(* presence build at most MAX_CELLS; a loop that has reached its cap       *)
(* stops without emitting, and every pass either ends the loop or raises   *)
(* the bounded pass counter, so the build terminates.                      *)
C9_CapsAndTermination ==
    /\ [](build.fn # "none" =>
            /\ build.emitted <= CapOf(build)
            /\ build.processed <= CapOf(build)
            /\ (build.fn = "presence" /\ build.pc = "loop")
                    => build.processed < MAX_CELLS)
    /\ [][build.pc = "loop" =>
            /\ build'.pc = "done" \/ build'.processed > build.processed
            /\ build.processed >= CapOf(build) =>
                    build'.pc = "done" /\ build'.emitted = build.emitted]_vars

C9_Witness ==
    /\ build.fn = "presence"
    /\ build.pc = "done"
    /\ build.processed = MAX_CELLS
    /\ build.emitted + build.overlaps = MAX_CELLS
    /\ build.overlaps > 0

\* the returned value carries a raised cap flag
ReturnsCapFlag(ret) == "capped" \in DOMAIN ret /\ ret.capped

---------------------------------------------------------------------------
(* Count conservation of the offset-grid aggregation.                      *)

AllFinite(points) ==
    \A i \in 1..Len(points) : isFinite(points[i][1]) /\ isFinite(points[i][2])

RECURSIVE SumOfCounts(_, _)
SumOfCounts(features, i) ==
    IF i = 0 THEN 0 ELSE SumOfCounts(features, i - 1) + features[i].count

\* the input points that fall in the cell `cellId`
PointsInCell(points, resolution, cellId) ==
    {i \in 1..Len(points) : GridCellOf(points[i], resolution).cellId = cellId}

\* the input points whose cell holds at least `k` input points
PointsInCellsOfAtLeast(points, resolution, k) ==
    {i \in 1..Len(points) :
        Cardinality(PointsInCell(points, resolution,
                                 GridCellOf(points[i], resolution).cellId)) >= k}

(* C11 as stated: for finite points at any of the three resolutions, the   *)
(* counts of the emitted cells add up to the number of input points.       *)
C11_EmittedSumIsPointCount ==
    (Returned("aggregatePointsToHexFC") /\ AllFinite(call.args.points)) =>
        SumOfCounts(call.out, Len(call.out)) = Len(call.args.points)

(* C11 amended: for finite points, every emitted cell has a distinct id    *)
(* and counts exactly the input points that fall in it, and a cell is      *)
(* emitted exactly when it holds at least the minimum count of the         *)
(* resolution (1 at resolution 5, 2 at resolutions 6 and 8); so the        *)
(* emitted counts add up to the number of input points at resolution 5,    *)
(* and to the number of input points that share their cell with another    *)
(* input point at resolutions 6 and 8.                                     *)
C11_EmittedSumIsKeptPointCount ==
    (Returned("aggregatePointsToHexFC") /\ AllFinite(call.args.points)) =>
        LET points == call.args.points
            resolution == call.args.resolution
            out == call.out
            k == IF resolution = 5 THEN 1 ELSE 2
        IN  /\ \A a, b \in 1..Len(out) : out[a].cellId = out[b].cellId => a = b
            /\ \A a \in 1..Len(out) :
                   /\ out[a].count = Cardinality(PointsInCell(points, resolution, out[a].cellId))
                   /\ out[a].count >= k
            /\ \A i \in PointsInCellsOfAtLeast(points, resolution, k) :
                   \E a \in 1..Len(out) :
                       out[a].cellId = GridCellOf(points[i], resolution).cellId
            /\ SumOfCounts(out, Len(out))
                   = Cardinality(PointsInCellsOfAtLeast(points, resolution, k))
            /\ resolution = 5 => SumOfCounts(out, Len(out)) = Len(points)

\* three finite points at resolution 8, two in one cell and one alone: one
\* cell of count 2 is emitted
C11_Witness ==
    /\ Returned("aggregatePointsToHexFC")
    /\ AllFinite(call.args.points)
    /\ call.args.resolution = 8
    /\ Len(call.args.points) = 3
    /\ Len(call.out) = 1
    /\ call.out[1].count = 2

---------------------------------------------------------------------------
(* Monotonic scoring of the annotated sparse collection.                   *)

\* position of a tier in the ordinal minimal < low < ... < significant
TierRank(tier) ==
    CASE tier = "minimal" -> 0
      [] tier = "low" -> 1
      [] tier = "moderate" -> 2
      [] tier = "notable" -> 3
      [] tier = "significant" -> 4

(* C12: of any two cells of the collection produced by the sparse build    *)
(* followed by the annotation at one resolution, the cell with the larger  *)
(* weighted estimate has a level and a tier at least as high as the other. *)
C12_LargerEstimateNeverLower ==
    Returned("buildSparseHexesFromPois") =>
        \A a, b \in 1..Len(call.out.annotated) :
            LET fa == call.out.annotated[a]
                fb == call.out.annotated[b]
            IN  fa.estimated > fb.estimated =>
                    /\ fa.greedLevel >= fb.greedLevel
                    /\ TierRank(fa.hex.tier) >= TierRank(fb.hex.tier)

---------------------------------------------------------------------------
(* The example of ten synagogues at one coordinate.                        *)

TenSynagogues == PoisOf([t \in 1..Len(PoiTemplates) |-> IF t = 1 THEN 10 ELSE 0])

(* C13: ten synagogues at one coordinate, built and annotated at           *)
(* resolution 5, give exactly one cell, with count 10, weighted estimate   *)
(* 2500, tier "significant" and level 100.                                 *)
C13_TenSynagoguesOneCell ==
    (/\ Returned("buildSparseHexesFromPois")
     /\ call.args.pois = TenSynagogues
     /\ call.args.resolution = 5) =>
        /\ Len(call.out.annotated) = 1
        /\ call.out.annotated[1].poiCounts["synagogue"] = 10
        /\ call.out.annotated[1].estimated = 2500
        /\ call.out.annotated[1].hex.tier = "significant"
        /\ call.out.annotated[1].greedLevel = 100

\* what the build and the annotation return for the example
TenSynagoguesObserved ==
    (/\ Returned("buildSparseHexesFromPois")
     /\ call.args.pois = TenSynagogues
     /\ call.args.resolution = 5) =>
        LET out == call.out.annotated
        IN  /\ Len(out) = Len(gridDisk(out[1].hex.cellId))
            /\ out[1].poiCounts["synagogue"] = 10
            /\ out[1].estimated = 2500
            /\ out[1].greedLevel = 100
            /\ out[1].hex.tier = "notable"
            /\ \A j \in 2..Len(out) :
                   /\ out[j].estimated = 0
                   /\ out[j].greedLevel = 0
                   /\ out[j].hex.tier = "low"

---------------------------------------------------------------------------
(* Point sets with nothing to bin.                                         *)

\* a feature the sparse build bins: a synagogue with finite coordinates
ValidForBinning(f) == f.kind = "synagogue" /\ isFinite(f.lon) /\ isFinite(f.lat)

NoValidPoint(features) == \A i \in 1..Len(features) : ~ValidForBinning(features[i])

(* C14: for an empty point set, or one in which no point is valid for      *)
(* binning, the sparse build returns the empty collection and raises no    *)
(* cap warning, and the annotation that follows returns the empty          *)
(* collection.                                                             *)
C14_NothingToBinGivesEmpty ==
    (Returned("buildSparseHexesFromPois") /\ NoValidPoint(call.args.pois)) =>
        /\ call.out.sparse.ret.fc = EMPTY_FC
        /\ ~call.out.sparse.warned
        /\ ~ReturnsCapFlag(call.out.sparse.ret)
        /\ call.out.annotated = EMPTY_FC

\* a set of a synagogue without a finite longitude and a point of no known
\* kind has been built and annotated
C14_Witness ==
    /\ Returned("buildSparseHexesFromPois")
    /\ NoValidPoint(call.args.pois)
    /\ \E i \in 1..Len(call.args.pois) : ~isFinite(call.args.pois[i].lon)
    /\ \E i \in 1..Len(call.args.pois) : call.args.pois[i].kind = "museum"
    /\ call.out.annotated = EMPTY_FC

---------------------------------------------------------------------------
(* Points with a non-finite coordinate.                                    *)

FinitePoints(points) ==
    SelectSeq(points, LAMBDA pt : isFinite(pt[1]) /\ isFinite(pt[2]))

FiniteFeatures(features) ==
    SelectSeq(features, LAMBDA f : isFinite(f.lon) /\ isFinite(f.lat))

(* C15: every aggregation routine skips a point with a non-finite          *)
(* longitude or latitude: what it returns is what it returns for the       *)
(* remaining points alone.                                                 *)
C15_NonFiniteSkipped ==
    /\ Returned("aggregatePointsToHexFC") =>
          call.out = aggregatePointsToHexFC(FinitePoints(call.args.points),
                                            call.args.resolution)
    /\ Returned("buildSparseHexesFromPois") =>
          LET rest == FiniteFeatures(call.args.pois)
              sparse == buildSparseHexesFromPois(rest, call.args.resolution)
          IN  /\ call.out.sparse = sparse
              /\ call.out.annotated
                    = annotateHexesWithPois(sparse.ret.fc, rest,
                                            poiDatasetVersion(rest), EmptyMap).fc

\* the part of C15 about the sparse build and the annotation
SparseSkipsNonFinite ==
    Returned("buildSparseHexesFromPois") =>
        LET rest == FiniteFeatures(call.args.pois)
            sparse == buildSparseHexesFromPois(rest, call.args.resolution)
        IN  /\ call.out.sparse = sparse
            /\ call.out.annotated
                  = annotateHexesWithPois(sparse.ret.fc, rest,
                                          poiDatasetVersion(rest), EmptyMap).fc

---------------------------------------------------------------------------
(* Resolutions outside the three levels.                                   *)

\* a hex feature whose resolution property is one of the three levels
HasKnownResolution(f) == "resolution" \in DOMAIN f /\ f.resolution \in H3Resolution

(* C16: the scoring function and the annotation fail with an error when    *)
(* they are given a resolution outside {5, 6, 8}; they never put a default *)
(* resolution or a default normalization constant in its place.            *)
C16_UnknownResolutionFails ==
    /\ (Returned("greedLevelFromEstimated") /\ call.args.res \notin H3Resolution)
          => call.threw
    /\ (/\ Returned("annotateHexesWithPois")
        /\ \E j \in 1..Len(call.args.hexFc) : ~HasKnownResolution(call.args.hexFc[j]))
          => call.threw

\* what the two functions return for such a resolution: the level against
\* the default maximum 1000, or against the maximum of resolution 6 for a
\* feature without the property
UnknownResolutionDefaults ==
    /\ (Returned("greedLevelFromEstimated") /\ call.args.res \notin H3Resolution)
          => call.out = clamp((call.args.estimated + 5) \div 10, 0, 100)
    /\ (/\ Returned("annotateHexesWithPois")
        /\ ~HasKnownResolution(call.args.hexFc[1]))
          => call.out[1].greedLevel
               = IF "resolution" \in DOMAIN call.args.hexFc[1]
                 THEN clamp((call.out[1].estimated + 5) \div 10, 0, 100)
                 ELSE greedLevelFromEstimated(call.out[1].estimated, 6)

---------------------------------------------------------------------------
(* The land mask and the displayed collection.                             *)

\* the geometry the mask loader stores: the land over which every supplied
\* point lies
UsaGeometry ==
    [type |-> "Polygon",
     coordinates |-> <<<<<<0, 0>>, <<16, 0>>, <<16, CellHeight>>, <<0, CellHeight>>, <<0, 0>>>>>>]

MaskGeometry(mask) == IF mask = null THEN NoGeometry ELSE UsaGeometry

\* the centre of a cell, the point the land-mask test is applied to
CellCenter(cell) ==
    LonLat(cell[2] * CellWidth(cell[1]) + CellWidth(cell[1]) \div 2, CellHeight \div 2)

InsideMask(fc, mask) ==
    \A i \in 1..Len(fc) :
        pointInGeoJsonPolygon(CellCenter(fc[i].hex.cellId), MaskGeometry(mask))

(* C17: once a land mask has been supplied, every collection the presence  *)
(* rebuild hands to the display holds only cells that lie inside the mask. *)
C17_DisplayedCellsInsideMask ==
    [][(usaGeomForMask # null /\ hexFC' # hexFC) => InsideMask(hexFC', usaGeomForMask)]_vars

\* every supplied point lies inside the mask: the cells outside are halo cells
PointsInsideMask ==
    \A fc \in Datasets : \A i \in 1..Len(fc) :
        pointInGeoJsonPolygon(LonLat(fc[i].lon, fc[i].lat), UsaGeometry)

---------------------------------------------------------------------------
(* Containment in polygons with holes and in multi-polygons.               *)

\* twice the signed area of the triangle a, b, pt
Cross(pt, a, b) == (b[1] - a[1]) * (pt[2] - a[2]) - (b[2] - a[2]) * (pt[1] - a[1])

EdgesOf(ring) == {<<ring[i], ring[i + 1]>> : i \in 1..(Len(ring) - 1)}

\* geometric containment in a closed convex ring, by its edges' half-planes
StrictlyInside(pt, ring) ==
    /\ Len(ring) > 0
    /\ \/ \A e \in EdgesOf(ring) : Cross(pt, e[1], e[2]) > 0
       \/ \A e \in EdgesOf(ring) : Cross(pt, e[1], e[2]) < 0

OnBoundary(pt, ring) ==
    /\ ~StrictlyInside(pt, ring)
    /\ ~\E e, f \in EdgesOf(ring) : Cross(pt, e[1], e[2]) > 0 /\ Cross(pt, f[1], f[2]) < 0
    /\ Len(ring) > 0

\* the outer ring of a polygon, empty when it has none
OuterOf(rings) == IF Len(rings) > 0 THEN rings[1] ELSE <<>>

\* outer ring minus holes, given the rings that contain the point
InPolygon(rings, containing) ==
    /\ OuterOf(rings) \in containing
    /\ \A h \in 2..Len(rings) : rings[h] \notin containing

InGeometry(geom, containing) ==
    IF geom = NoGeometry THEN FALSE
    ELSE IF geom.type = "Polygon" THEN InPolygon(geom.coordinates, containing)
    ELSE IF geom.type = "MultiPolygon"
    THEN \E p \in 1..Len(geom.coordinates) : InPolygon(geom.coordinates[p], containing)
    ELSE FALSE

RingsOf(geom) ==
    IF geom = NoGeometry THEN {}
    ELSE IF geom.type = "Polygon"
    THEN {geom.coordinates[r] : r \in 1..Len(geom.coordinates)}
    ELSE IF geom.type = "MultiPolygon"
    THEN UNION {{geom.coordinates[p][r] : r \in 1..Len(geom.coordinates[p])} :
                    p \in 1..Len(geom.coordinates)}
    ELSE {}

PointInRingOfInts(pt, ring) == pointInRing(LonLat(pt[1], pt[2]), ring)

(* C19: pointInGeoJsonPolygon is true for a Polygon exactly when the point *)
(* is inside the outer ring and inside no hole, for a MultiPolygon exactly *)
(* when some part has the point inside its outer ring and inside none of   *)
(* its holes, and false for a missing geometry or another type; inside a   *)
(* ring is what pointInRing answers, which for a point off every ring's    *)
(* border is geometric containment.                                        *)
C19_OuterMinusHoles ==
    Returned("pointInGeoJsonPolygon") =>
        LET pt == call.args.pt
            geom == Geometries[call.args.geom]
        IN  /\ call.out
                  = InGeometry(geom, {ring \in RingsOf(geom) : PointInRingOfInts(pt, ring)})
            /\ (\A ring \in RingsOf(geom) : ~OnBoundary(pt, ring))
                  => call.out
                       = InGeometry(geom, {ring \in RingsOf(geom) : StrictlyInside(pt, ring)})

\* a point in the hole of the first part and on the island that is the
\* second part of a MultiPolygon has been found inside
C19_Witness ==
    /\ Returned("pointInGeoJsonPolygon")
    /\ Geometries[call.args.geom].type = "MultiPolygon"
    /\ Len(Geometries[call.args.geom].coordinates) = 2
    /\ StrictlyInside(call.args.pt, HoleRing)
    /\ StrictlyInside(call.args.pt, IslandRing)
    /\ call.out

---------------------------------------------------------------------------
(* Degenerate rings.                                                       *)

DistinctVertices(ring) == {ring[i] : i \in 1..Len(ring)}

(* C20: pointInRing is false for every point when the ring has fewer than  *)
(* three distinct vertices: an empty ring, one vertex, two vertices, or a  *)
(* closed ring of two distinct vertices.                                   *)
C20_DegenerateRingContainsNothing ==
    (Returned("pointInRing") /\ Cardinality(DistinctVertices(call.args.ring)) < 3)
        => ~call.out

---------------------------------------------------------------------------
(* The level of an estimate.                                               *)

\* the normalization constant of each resolution
ResolutionMax(res) == CASE res = 5 -> 2500 [] res = 6 -> 900 [] res = 8 -> 300

\* k is the integer nearest to 100 * e / max, which no integer e puts
\* halfway between two integers for these three constants
NearestPercent(k, e, max) == 2 * Abs(100 * e - k * max) < max

(* C22: for every non-negative integer estimate e and each resolution 5, 6 *)
(* and 8, greedLevelFromEstimated(e, res) is round(clamp(e / max, 0, 1) *  *)
(* 100) with max 2500, 900 and 300, an integer in 0..100.                  *)
C22_LevelIsRoundedPercent ==
    (Returned("greedLevelFromEstimated") /\ call.args.res \in H3Resolution) =>
        LET e == call.args.estimated
            max == ResolutionMax(call.args.res)
        IN  /\ call.out \in 0..100
            /\ IF e >= max THEN call.out = 100 ELSE NearestPercent(call.out, e, max)

\* an estimate strictly inside the range whose percentage rounds up
C22_Witness ==
    /\ Returned("greedLevelFromEstimated")
    /\ call.args.res = 6
    /\ call.args.estimated = 500
    /\ call.out = 56

---------------------------------------------------------------------------
(* C27: getHexResWithHysteresis depends on the previous resolution only    *)
(* inside the two bands [CITY_EXIT_Z, CITY_ENTER_Z) and [TOWN_EXIT_Z,      *)
(* TOWN_ENTER_Z). Outside them the result is getHexRes of the zoom for     *)
(* every previous resolution; inside a band the result is the previous     *)
(* resolution when it is one of the two levels the band separates, and the *)
(* coarser of those two levels otherwise.                                  *)
InZoomBand(z, lo, hi) == ~Below(z, lo) /\ Below(z, hi)

\* the two levels a band separates, or the empty set outside the bands
BandLevels(z) ==
    IF InZoomBand(z, CITY_EXIT_Z, CITY_ENTER_Z) THEN {5, 6}
    ELSE IF InZoomBand(z, TOWN_EXIT_Z, TOWN_ENTER_Z) THEN {6, 8}
    ELSE {}

Coarser(levels) == CHOOSE r \in levels : \A q \in levels : r <= q

C27_PreviousMattersOnlyInBands ==
    Returned("getHexResWithHysteresis") =>
        LET z == call.args.nextZoom
            prev == call.args.prevRes
            levels == BandLevels(z)
        IN  IF levels = {} THEN call.out = getHexRes(z)
            ELSE IF prev \in levels THEN call.out = prev
            ELSE call.out = Coarser(levels)

C27_Witness ==
    /\ Returned("getHexResWithHysteresis")
    /\ InZoomBand(call.args.nextZoom, CITY_EXIT_Z, CITY_ENTER_Z)
    /\ call.args.prevRes = 8
    /\ call.out = 5

---------------------------------------------------------------------------
(* C23: in buildSparseHexesFromPois the halo of a home cell with count c   *)
(* gives each adjacent cell 0.25 * c, combined by maximum and never by     *)
(* sum: the cells emitted are the home cells and the cells adjacent to     *)
(* one, each once, and the estimate of each is the larger of its own home  *)
(* count (0 when it has none) and a quarter of the largest home count      *)
(* among the cells adjacent to it, whatever the order of the points.       *)
HomeCount(features, resolution, cell) ==
    Cardinality({i \in 1..Len(features) :
        /\ ValidForBinning(features[i])
        /\ latLngToCell(features[i].lat, features[i].lon, resolution) = cell})

HomeCells(features, resolution) ==
    {latLngToCell(features[i].lat, features[i].lon, resolution) :
        i \in {j \in 1..Len(features) : ValidForBinning(features[j])}}

Adjacent(cell, other) ==
    other # cell /\ \E n \in 1..Len(gridDisk(other)) : gridDisk(other)[n] = cell

SetMax(S) == IF S = {} THEN 0 ELSE CHOOSE x \in S : \A y \in S : y <= x

\* four times the estimate of the claim, for a cell of the collection
HaloEstimate4(features, resolution, cell) ==
    LET own4 == 4 * HomeCount(features, resolution, cell)
        halo4 == SetMax({HomeCount(features, resolution, other) :
                            other \in {h \in HomeCells(features, resolution) :
                                            Adjacent(cell, h)}})
    IN  IF own4 > halo4 THEN own4 ELSE halo4

C23_HaloIsMaximum ==
    Returned("buildSparseHexesFromPois") =>
        LET features == call.args.pois
            resolution == call.args.resolution
            fc == call.out.sparse.ret.fc
            homes == HomeCells(features, resolution)
        IN  /\ \A a, b \in 1..Len(fc) : fc[a].cellId = fc[b].cellId => a = b
            /\ {fc[j].cellId : j \in 1..Len(fc)} =
                    homes \cup UNION {{gridDisk(h)[n] : n \in 1..Len(gridDisk(h))} : h \in homes}
            /\ \A j \in 1..Len(fc) :
                    fc[j].estimated4 = HaloEstimate4(features, resolution, fc[j].cellId)

\* a cell between two home cells of different counts holds the larger halo,
\* and a home cell next to a larger one holds that one's halo
C23_Witness ==
    /\ Returned("buildSparseHexesFromPois")
    /\ call.args.resolution = 8
    /\ LET features == call.args.pois
           fc == call.out.sparse.ret.fc
       IN  /\ HomeCount(features, 8, <<8, 0>>) = 5
           /\ HomeCount(features, 8, <<8, 1>>) = 1
           /\ HomeCount(features, 8, <<8, 2>>) = 0
           /\ \E j \in 1..Len(fc) : fc[j].cellId = <<8, 1>> /\ fc[j].estimated4 = 5
           /\ \E j \in 1..Len(fc) : fc[j].cellId = <<8, 2>> /\ fc[j].estimated4 = 1

---------------------------------------------------------------------------
(* C24: the p95 returned by buildSparseHexesFromPois is the element at     *)
(* index floor(0.95 * (n - 1)) of the ascending non-zero densities of the  *)
(* n emitted cells, and 1 when there is none; the score of every emitted   *)
(* cell is its density divided by that p95, clamped to [0, 1].             *)
RECURSIVE CommonDivisor(_, _)
CommonDivisor(a, b) == IF b = 0 THEN a ELSE CommonDivisor(b, a % b)

\* the ratio in lowest terms
Lowest(r) ==
    LET g == CommonDivisor(r.num, r.den)
    IN  IF g = 0 THEN r ELSE Ratio(r.num \div g, r.den \div g)

RatioEqual(a, b) == Lowest(a) = Lowest(b)

\* v is the element at index idx (from 0) of the ascending order of values
IsOrderStatistic(v, values, idx) ==
    /\ \E j \in 1..Len(values) : RatioEqual(values[j], v)
    /\ Cardinality({j \in 1..Len(values) : RatioLess(values[j], v)}) <= idx
    /\ Cardinality({j \in 1..Len(values) : ~RatioLess(v, values[j])}) >= idx + 1

C24_ScoreIsDensityOverP95 ==
    Returned("buildSparseHexesFromPois") =>
        LET fc == call.out.sparse.ret.fc
            p95 == call.out.sparse.ret.p95
            all == [j \in 1..Len(fc) |-> fc[j].density]
            nonzero == SelectSeq(all, LAMBDA d : d.num > 0)
            n == Len(nonzero)
        IN  /\ IF n = 0 THEN RatioEqual(p95, Ratio(1, 1))
               ELSE IsOrderStatistic(p95, nonzero, (95 * (n - 1)) \div 100)
            /\ \A j \in 1..Len(fc) :
                    LET d == Lowest(fc[j].density)
                        p == Lowest(p95)
                        quotient == Lowest(Ratio(d.num * p.den, d.den * p.num))
                    IN  RatioEqual(fc[j].score,
                                   IF quotient.num > quotient.den THEN Ratio(1, 1)
                                   ELSE IF quotient.num < 0 THEN Ratio(0, 1)
                                   ELSE quotient)

\* four cells of which one is denser than the p95 and one sparser
C24_Witness ==
    /\ Returned("buildSparseHexesFromPois")
    /\ LET fc == call.out.sparse.ret.fc
           p95 == call.out.sparse.ret.p95
       IN  /\ Len(fc) = 4
           /\ \E j \in 1..Len(fc) :
                  /\ RatioLess(Lowest(p95), Lowest(fc[j].density))
                  /\ RatioEqual(fc[j].score, Ratio(1, 1))
           /\ \E j \in 1..Len(fc) :
                  /\ RatioLess(Lowest(fc[j].density), Lowest(p95))
                  /\ RatioLess(Lowest(fc[j].score), Ratio(1, 1))

---------------------------------------------------------------------------
(* C29: every cell annotateHexesWithPois returns, from the annotation      *)
(* cache or computed, has non-negative integer counts for the six kinds,   *)
(* estimated = estimate = the sum over the kinds of poiCounts[kind] times  *)
(* the kind's weight (250, 150, 40, 80, 200, 300), and greedLevel =        *)
(* greedLevelFromEstimated(estimated, resolution of the cell).             *)
ClaimedWeight(kind) ==
    CASE kind = "synagogue" -> 250
      [] kind = "jcc" -> 150
      [] kind = "kosher" -> 40
      [] kind = "mikveh" -> 80
      [] kind = "jewish_school" -> 200
      [] kind = "jewish_camp" -> 300

RECURSIVE SumOver(_, _)
SumOver(S, term) ==
    IF S = {} THEN 0
    ELSE LET x == CHOOSE y \in S : TRUE IN term[x] + SumOver(S \ {x}, term)

Consistent(cell) ==
    /\ DOMAIN cell.poiCounts = PoiKind
    /\ \A kind \in PoiKind : cell.poiCounts[kind] \in Nat
    /\ cell.estimated =
          SumOver(PoiKind, [kind \in PoiKind |-> cell.poiCounts[kind] * ClaimedWeight(kind)])
    /\ cell.estimate = cell.estimated
    /\ cell.greedLevel = greedLevelFromEstimated(cell.estimated, cell.hex.resolution)

C29_AnnotatedCellsConsistent ==
    Returned("annotateHexesWithPois") =>
        \A j \in 1..Len(call.out) :
            "resolution" \in DOMAIN call.args.hexFc[j] => Consistent(call.out[j])

\* a cell taken from the cache that counts a synagogue and a school
C29_Witness ==
    /\ Returned("annotateHexesWithPois")
    /\ call.args.cache # EmptyMap
    /\ \E j \in 1..Len(call.out) :
          /\ <<call.out[j].hex.cellId, poiDatasetVersion(call.args.poisFc)>>
                \in DOMAIN call.args.cache
          /\ call.out[j].poiCounts["synagogue"] = 1
          /\ call.out[j].poiCounts["jewish_school"] = 1
          /\ call.out[j].estimated = 450

---------------------------------------------------------------------------
(* C25: at most one scheduled presence rebuild is uncancelled, and it is   *)
(* the one issued last; the step that schedules a new rebuild or applies a *)
(* cached collection leaves every rebuild scheduled before it cancelled;   *)
(* so a rebuild that runs with a token other than the latest has been      *)
(* cancelled already.                                                      *)
Uncancelled == {t \in DOMAIN jobs : ~jobs[t].cancelled}

\* the rebuild effect has run again: a new token, or a cached collection
RebuildEffectRan ==
    \/ hexBuildToken' # hexBuildToken
    \/ committed'.cleanup = 0 /\ (committed.cleanup # 0 \/ shownKey' # shownKey)

C25_OnlyLatestUncancelled ==
    /\ [](/\ Cardinality(Uncancelled) <= 1
          /\ \A t \in Uncancelled : t = hexBuildToken /\ t = committed.cleanup
          /\ (lastRun.token # 0 /\ lastRun.token # lastRun.latest) => lastRun.cancelled)
    /\ [][RebuildEffectRan =>
            \A t \in DOMAIN jobs : t \in DOMAIN jobs' /\ jobs'[t].cancelled]_vars

\* a superseded rebuild has run while its successor is still scheduled
C25_Witness ==
    /\ lastRun.token # 0
    /\ lastRun.token # lastRun.latest
    /\ lastRun.cancelled
    /\ Uncancelled # {}

---------------------------------------------------------------------------
(* C26: when the rebuild effect finds the cache key in the hex cache, the  *)
(* cached collection is displayed in that step, no rebuild is scheduled,   *)
(* the build token is unchanged and neither the hex cache nor the          *)
(* annotation cache is modified; and every entry of the hex cache was      *)
(* built with exactly the resolution and the fingerprint of its key.       *)

\* the rebuild effect runs in this step and finds its key in the hex cache
CacheHitStep ==
    /\ Dirty
    /\ committed' = Committed(0)
    /\ (currentRes # committed.res \/ pois # committed.pois)

\* the entries this step stores in the hex cache
Stored == {k \in DOMAIN hexCache' : k \notin DOMAIN hexCache \/ hexCache'[k] # hexCache[k]}

C26_CacheHitOnlyDisplays ==
    /\ [][CacheHitStep =>
            /\ CacheKeyOf(currentRes, pois) \in DOMAIN hexCache
            /\ hexFC' = hexCache[CacheKeyOf(currentRes, pois)]
            /\ DOMAIN jobs' = DOMAIN jobs
            /\ hexBuildToken' = hexBuildToken
            /\ hexCache' = hexCache
            /\ hexAnnotationCache' = hexAnnotationCache]_vars
    /\ [][\A k \in Stored :
            \E t \in DOMAIN jobs :
                /\ k = <<jobs[t].res, Len(synagoguePois(jobs[t].pois)),
                         poiDatasetVersion(jobs[t].pois)>>
                /\ hexCache'[k] = Rebuilt(jobs[t]).fc]_vars
    /\ [](\A k \in DOMAIN hexCache : \A i \in 1..Len(hexCache[k]) :
            hexCache[k][i].hex.resolution = k[1])

\* a cached collection is on display and no rebuild is pending for it
C26_Witness ==
    /\ committed.cleanup = 0
    /\ shownKey \in DOMAIN hexCache
    /\ hexFC = hexCache[shownKey]
    /\ Len(hexFC) > 0
    /\ shownKey[1] = currentRes

---------------------------------------------------------------------------
(* The URL the browser's fetch requests for a string, as far as the        *)
(* strings of the model need it: leading spaces are dropped, a backslash   *)
(* after a scheme of the web is read as a slash, scheme and host are       *)
(* compared without case, and what precedes an "@" in the authority is not *)
(* the host.                                                               *)
RECURSIVE StripLeading(_)
StripLeading(str) ==
    IF Len(str) > 0 /\ str[1] = " " THEN StripLeading(Tail(str)) ELSE str

Slashed(str) == [i \in 1..Len(str) |-> IF str[i] = "\\" THEN "/" ELSE str[i]]

Canonical(str) == toLowerCase(Slashed(StripLeading(str)))

IsAbsoluteHttp(str) ==
    \/ startsWith(Canonical(str), <<"http", ":", "/", "/">>)
    \/ startsWith(Canonical(str), <<"http", "s", ":", "/", "/">>)

\* the request goes to https://tiles.openfreemap.org
OnTileOrigin(str) ==
    LET prefix == FETCH_ABSOLUTE_ALLOWLIST[1]
    IN  \/ Canonical(str) = prefix
        \/ startsWith(Canonical(str), Append(prefix, "/"))

(* C21: once the guard is installed, every fetch of an absolute http(s)    *)
(* URL other than https://tiles.openfreemap.org itself or one beginning    *)
(* with https://tiles.openfreemap.org/ throws and never reaches the        *)
(* underlying fetch; relative and allow-listed URLs are forwarded          *)
(* unchanged; and window.fetch is wrapped at most once however many times  *)
(* MapShell mounts.                                                        *)
C21_GuardBlocksOtherOrigins ==
    /\ win.guards <= 1
    /\ win.last.guarded =>
         LET url == getFetchUrl(win.last.input)
         IN  IF IsAbsoluteHttp(url) /\ ~OnTileOrigin(url)
             THEN win.last.threw /\ ~win.last.reached
             ELSE /\ ~win.last.threw
                  /\ win.last.reached
                  /\ win.last.passed = <<win.last.input>>

\* what the guard does do: it blocks the strings that begin with http:// or
\* https:// in either case and are not on the tile origin, forwards every
\* other input unchanged, and is installed once
GuardBlocksPrefixedUrls ==
    /\ win.guards <= 1
    /\ win.last.guarded =>
         LET url == getFetchUrl(win.last.input)
         IN  IF TestHttpPrefix(url) /\ ~OnTileOrigin(url)
             THEN win.last.threw /\ ~win.last.reached
             ELSE /\ ~win.last.threw
                  /\ win.last.reached
                  /\ win.last.passed = <<win.last.input>>

\* a guarded fetch of another origin's URL behind a leading space went through
GuardBypassed ==
    /\ win.mounts > 1
    /\ win.last.guarded
    /\ win.last.reached
    /\ win.last.input = [kind |-> "string",
                         url |-> <<" ", "http", "s", ":", "/", "/", "evil.example", "/">>]

---------------------------------------------------------------------------
(* C28: the point dataset is loaded single-flight: at most one request for *)
(* /data/pois.geojson is in flight at any time; no request is issued once  *)
(* a load has succeeded; a failed load resets the shared promise, so that  *)
(* the next mount issues a new request; and a component that has unmounted *)
(* never receives a state update.                                          *)
Requests == Len(loader.requests)

Failing == \E n \in InFlight : loader'.requests[n] = "failed"

MountingNow == \E c \in Components :
    loader.comps[c].phase = "new" /\ loader'.comps[c].phase = "mounted"

C28_SingleFlight ==
    /\ [](/\ Cardinality(InFlight) <= 1
          /\ \A c \in Components : ~loader.comps[c].late)
    /\ [][\A c \in Components :
            loader.comps[c].phase = "gone"
                => loader'.comps[c].pois = loader.comps[c].pois]_vars
    /\ [][loader.cache # null => Len(loader'.requests) = Requests]_vars
    /\ [][Failing => loader'.promise = NoPromise]_vars
    /\ [][(MountingNow /\ loader.cache = null /\ InFlight = {})
            => Len(loader'.requests) = Requests + 1]_vars

\* a load failed, a later mount issued the second request, which succeeded,
\* and a component that had unmounted meanwhile was passed over
C28_Witness ==
    /\ Requests = 2
    /\ loader.requests[1] = "failed"
    /\ loader.requests[2] = "ok"
    /\ \E c \in Components :
          /\ loader.comps[c].phase = "gone"
          /\ loader.comps[c].sub = 2
          /\ loader.comps[c].notified
    /\ \E c \in Components : loader.comps[c].pois = "fc"

---------------------------------------------------------------------------
(* C30: while no acknowledgment is recorded, asking for 'More types' or    *)
(* enabling a sensitive type (school, mikveh, camp) changes neither        *)
(* showMoreTypes nor visibleTypes and only opens the dialog; Cancel leaves *)
(* both unchanged; showMoreTypes becomes true only by Continue or with a   *)
(* recorded acknowledgment, and a sensitive type is added only with a      *)
(* recorded acknowledgment; disabling a type, or 'More types', never       *)
(* depends on the acknowledgment.                                          *)
SensitiveKeys == {"school", "mikveh", "camp"}

Visible(t) == {t.visibleTypes[i] : i \in 1..Len(t.visibleTypes)}

ParentUnchanged ==
    /\ toggles'.visibleTypes = toggles.visibleTypes
    /\ toggles'.showMoreTypes = toggles.showMoreTypes

\* the handler that ran in this step
Ran(event) == toggles' # toggles /\ toggles'.last.event = event

\* the step asks for 'More types', or enables a sensitive type
AsksForSensitive ==
    \/ Ran("requestShowMore") /\ ~toggles.showMoreTypes
    \/ Ran("requestSensitiveEnable") /\ toggles'.last.key \in SensitiveKeys

\* the step unchecks a type or 'More types'
Disables ==
    \/ Ran("requestShowMore") /\ toggles.showMoreTypes
    \/ Ran("toggleType") /\ toggles'.last.key \in Visible(toggles)

C30_SensitiveNeedsAcknowledgment ==
    /\ [][(AsksForSensitive /\ ~hasAck(toggles))
            => ParentUnchanged /\ toggles'.ackOpen]_vars
    /\ [][Ran("cancel") => ParentUnchanged]_vars
    /\ [][(toggles'.showMoreTypes /\ ~toggles.showMoreTypes)
            => Ran("continue") \/ hasAck(toggles)]_vars
    /\ [][(Visible(toggles') \cap SensitiveKeys) \ Visible(toggles) # {}
            => hasAck(toggles)]_vars
    /\ [][Disables =>
            /\ toggles'.ackOpen = toggles.ackOpen
            /\ IF toggles'.last.event = "toggleType"
               THEN Visible(toggles') = Visible(toggles) \ {toggles'.last.key}
               ELSE ~toggles'.showMoreTypes]_vars

\* without a recorded acknowledgment, a sensitive type was asked for and
\* only the dialog opened
C30_Witness ==
    /\ ~hasAck(toggles)
    /\ toggles.last = [event |-> "requestSensitiveEnable", key |-> "school"]
    /\ toggles.ackOpen
    /\ toggles.showMoreTypes
    /\ Visible(toggles) \cap SensitiveKeys = {}

====
